---- MODULE Spec2Model ----
(***************************************************************************)
(* Photo grid optimizer: layout candidate generation, deduplication and    *)
(* scoring.                                                                *)
(*                                                                         *)
(* Two generators of the repository are modelled side by side:             *)
(*   - the descriptor-based generator (layout descriptors, lenient         *)
(*     deduplication that annotates duplicates); its definitions that      *)
(*     share a name with the other generator end in D;                     *)
(*   - the older hand-unrolled generator with strict deduplication that    *)
(*     drops duplicates; its definitions end in S.                         *)
(*                                                                         *)
(* JavaScript numbers are modelled as IEEE 754 binary64 values: every      *)
(* arithmetic operation rounds to the nearest value, ties to even, and     *)
(* NaN, the infinities and the signed zeros behave as in the program       *)
(* (section "Numbers").  Expressions are evaluated in the order the        *)
(* program evaluates them, since rounding makes the order matter.          *)
(* Math.sqrt is correctly rounded; Math.pow(x, 2) is taken to be the       *)
(* rounded product x * x.  Page and photo sizes are integers.              *)
(*                                                                         *)
(* The "photos" field every layout object carries (a copy of the sorted    *)
(* photo list, the same in every layout of a call) is not stored in the    *)
(* layout records.                                                         *)
(*                                                                         *)
(* Evaluation note.  TLC evaluates a LET definition or an operator         *)
(* argument where it is first used, however deep inside the expression     *)
(* that is.  The expression  The({e : x \in {v}})  is "let x = v in e"     *)
(* with v evaluated before e; it keeps the evaluation of long pipelines    *)
(* shallow.                                                                *)
(***************************************************************************)
EXTENDS Integers, Sequences, FiniteSets, TLC

VARIABLES
    generator,     \* which generateLayouts is being called: "descriptor" or "strict"
    pc,            \* position inside the call being modelled
    photos,        \* the photos argument (a sequence of photo records, or MissingPhotos); App runs: the photos state of App
    pageSize,      \* the pageSize argument [width, height]; App runs: the pageSize state of App
    sortedPhotos,  \* local: photos sorted by descending aspect ratio
    descriptors,   \* local: the layout descriptors for the number of photos
    layouts,       \* local: generated layouts, in generation order; App runs: the layouts state of App
    uniqueLayouts, \* local: output of removeDuplicateLayouts
    result,        \* the returned value
    layoutDescriptor, \* binary64 runs: the layout descriptor whose layout is measured
    cellIndex,     \* binary64 runs: number of cells calculateUtilization has added
    usedArea,      \* binary64 runs: calculateUtilization's accumulator
    builder,       \* optimizer runs: the function that assigns photos to cells
    givenCells,    \* optimizer runs: the cells argument (or the cells created), in creation order
    cellsWithoutPhotos, \* optimizer runs: the cells sorted by descending aspect ratio
    remainingPhotos,    \* optimizer runs: the pool the next cell chooses from
    optimizedLayout,    \* optimizer runs: the layout under construction
    forEachIndex,  \* generateComplexLayouts runs: number of elements layouts.forEach has visited
    forEachLength, \* generateComplexLayouts runs: the length layouts had when forEach was called
    uploaderPhotos, \* App runs: the photos state of PhotoUploader
    selectedFiles, \* App runs: the selectedFiles state of PhotoUploader
    loading,       \* App runs: the handleFileChange calls waiting for their images to load
    pickedFiles    \* App runs: number of files picked so far (file k is the k-th file picked)

callVars == <<photos, pageSize, sortedPhotos, descriptors, layouts, uniqueLayouts, result>>

f64Vars == <<layoutDescriptor, cellIndex, usedArea>>

optVars == <<builder, givenCells, cellsWithoutPhotos, remainingPhotos, optimizedLayout>>

loopVars == <<forEachIndex, forEachLength>>

uiVars == <<uploaderPhotos, selectedFiles, loading, pickedFiles>>

vars == <<generator, pc, callVars, f64Vars, optVars, loopVars, uiVars>>

The(S) == CHOOSE r \in S : TRUE

\* a sequence given as a function, evaluated element by element into a tuple
Tup(f) == <<>> \o f

\* JavaScript's undefined / null, as a value comparable with photo records
Null == [undefined |-> TRUE]

\* a photos argument that is undefined or null (encoded as a one-element list so
\* that it is comparable with photo lists)
MissingPhotos == <<Null>>

\* faulty variant of NoPhotos: the test for a missing list is forgotten (C6's
\* formula must notice)
EmptyListOnly(ps) == ps = <<>>

\* !photos || photos.length === 0
NoPhotos(ps) == ps = MissingPhotos \/ ps = <<>>

\* { ...object, ...extra }
Spread(object, extra) ==
    [k \in (DOMAIN object) \cup (DOMAIN extra) |->
        IF k \in DOMAIN extra THEN extra[k] ELSE object[k]]

(***************************************************************************)
(* Numbers.  A JavaScript number is an IEEE 754 binary64 value, and every  *)
(* operation rounds its exact result to the nearest such value, ties to    *)
(* even.  A number is a tuple <<s, e, m3, m2, m1, m0>>: s is the sign (1   *)
(* or -1, 0 for NaN), and the magnitude is M * 2^e for the mantissa        *)
(* M = m3 * Limb^3 + m2 * Limb^2 + m1 * Limb + m0 of exactly MantissaBits  *)
(* bits, kept in four limbs because it does not fit TLC's integers.  The   *)
(* zeros and the infinities have mantissa 0 and the exponents ZeroExp and  *)
(* InfExp, so that magnitudes are ordered by exponent, then limbs.  The    *)
(* exponent is not limited: the program's values stay far from overflow    *)
(* and from the subnormal range.                                           *)
(***************************************************************************)
IAbs(i) == IF i < 0 THEN -i ELSE i

ISign(i) == IF i > 0 THEN 1 ELSE IF i < 0 THEN -1 ELSE 0

LimbBits == 14

Limb == 16384

\* 52 stored bits and the implicit leading bit
MantissaBits == 53

\* bits of the leading limb of a mantissa
TopBits == 11

ZeroExp == -(10 ^ 6)

InfExp == 10 ^ 6

NaN == <<0, 0, 0, 0, 0, 0>>

SignedZero(s) == <<s, ZeroExp, 0, 0, 0, 0>>

SignedInfinity(s) == <<s, InfExp, 0, 0, 0, 0>>

Infinity == SignedInfinity(1)

IsNaN(a) == a[1] = 0

IsZero(a) == a[2] = ZeroExp

IsInfinite(a) == a[2] = InfExp

IsFinite(a) == a[1] # 0 /\ a[2] # InfExp

\* number of bits of t, for 0 <= t < 2^31
RECURSIVE BitLen(_)
BitLen(t) == IF t >= 16 THEN 4 + BitLen(t \div 16)
             ELSE <<0, 1, 2, 2, 3, 3, 3, 3, 4, 4, 4, 4, 4, 4, 4, 4>>[t + 1]

\* the limbs of the integer a * Limb^3 + b * Limb^2 + c * Limb + d, led by what the
\* first column carries out: from the last column on, every column gives its value
\* modulo Limb and carries the rest (a negative column borrows)
Carried1(a, b0, c0, d0) == <<a \div Limb, a % Limb, b0, c0, d0>>

Carried2(a, b, c0, d0) == Carried1(a + b \div Limb, b % Limb, c0, d0)

Carried3(a, b, c, d0) == Carried2(a, b + c \div Limb, c % Limb, d0)

Carried(a, b, c, d) == Carried3(a, b, c + d \div Limb, d % Limb)

\* the same for seven columns
Carried5(a, b, c, d, e, f0, g0) == Carried(a, b, c, d + e \div Limb) \o <<e % Limb, f0, g0>>

Carried6(a, b, c, d, e, f, g0) == Carried5(a, b, c, d, e + f \div Limb, f % Limb, g0)

Carried7(a, b, c, d, e, f, g) == Carried6(a, b, c, d, e, f + g \div Limb, g % Limb)

\* the number s * 2^e * (the mantissa plus one), for the limbs c of the mantissa plus
\* one behind their carry: a mantissa of 2^MantissaBits is 2^(MantissaBits - 1) one
\* exponent up
Successor(s, e, c) ==
    IF c[2] = 2 ^ TopBits THEN <<s, e + 1, 2 ^ (TopBits - 1), 0, 0, 0>>
    ELSE <<s, e, c[2], c[3], c[4], c[5]>>

\* s * 2^e * (the mantissa q3..q0 and a fraction of rest / (2 * half), or more than
\* that if sticky) rounded to the nearest, ties to even
Nearest(s, e, q3, q2, q1, q0, rest, half, sticky) ==
    IF rest > half \/ (rest = half /\ (sticky \/ q0 % 2 = 1))
    THEN Successor(s, e, Carried(q3, q2, q1, q0 + 1))
    ELSE <<s, e, q3, q2, q1, q0>>

\* s * 2^e * T for a T whose leading limb t3 has TopBits + k bits, 0 < k <= LimbBits:
\* the bits below the mantissa are cut off and decide the rounding (p = 2^k,
\* q = Limb / p)
CutOff(s, e, t3, t2, t1, t0, sticky, p, q) ==
    Nearest(s, e, t3 \div p, (t3 % p) * q + (t2 \div p), (t2 % p) * q + (t1 \div p),
            (t1 % p) * q + (t0 \div p), t0 % p, p \div 2, sticky)

\* s * 2^(e + k) * T / 2^k for a T whose leading limb t3 has TopBits + k bits,
\* k <= LimbBits: exact for k <= 0
Aligned(s, e, t3, t2, t1, t0, sticky, k) ==
    IF k <= 0
    THEN <<s, e + k>> \o Tail(Carried(t3 * 2 ^ (-k), t2 * 2 ^ (-k), t1 * 2 ^ (-k), t0 * 2 ^ (-k)))
    ELSE CutOff(s, e + k, t3, t2, t1, t0, sticky, 2 ^ k, Limb \div (2 ^ k))

\* the number nearest to s * (T + f) * 2^e, ties to even, where
\* T = t3 * Limb^3 + t2 * Limb^2 + t1 * Limb + t0 with t2, t1, t0 < Limb, 0 <= f < 1,
\* and sticky tells whether f > 0 (T then has more bits than a mantissa)
RECURSIVE Round(_, _, _, _, _, _, _)
Round(s, e, t3, t2, t1, t0, sticky) ==
    IF t3 = 0
    THEN IF t2 = 0 /\ t1 = 0 /\ t0 = 0 THEN SignedZero(s)
         ELSE Round(s, e - LimbBits, t2, t1, t0, 0, sticky)
    ELSE IF t3 >= 2 ^ (TopBits + LimbBits)
    THEN Round(s, e + LimbBits, t3 \div Limb, t3 % Limb, t2, t1, sticky \/ t0 # 0)
    ELSE Aligned(s, e, t3, t2, t1, t0, sticky, BitLen(t3) - TopBits)

\* the number s * m for an integer m of n bits, 0 < n <= 31: with at most
\* MantissaBits bits it is a number exactly, its bits being the leading ones of the
\* mantissa (p = 2^(n - TopBits) is what the leading limb leaves behind)
Wide(s, m, n, p) ==
    <<s, n - MantissaBits, m \div p,
      IF p <= Limb THEN (m % p) * (Limb \div p) ELSE (m % p) \div (p \div Limb),
      IF p <= Limb THEN 0 ELSE ((m % p) % (p \div Limb)) * (Limb \div (p \div Limb)),
      0>>

Exact(s, m, n) ==
    IF n <= TopBits THEN <<s, n - MantissaBits, m * 2 ^ (TopBits - n), 0, 0, 0>>
    ELSE Wide(s, m, n, 2 ^ (n - TopBits))

\* the number of an integer
R(i) ==
    IF i = 0 THEN SignedZero(1)
    ELSE Exact(IF i < 0 THEN -1 ELSE 1, IAbs(i), BitLen(IAbs(i)))

NNeg(a) == <<-a[1], a[2], a[3], a[4], a[5], a[6]>>

NAbs(a) == <<IAbs(a[1]), a[2], a[3], a[4], a[5], a[6]>>

\* sign of x - y for two tuples of the same length read from position i as limbs,
\* most significant first
RECURSIVE LimbsCmp(_, _, _)
LimbsCmp(x, y, i) ==
    IF i > Len(x) THEN 0
    ELSE IF x[i] # y[i] THEN (IF x[i] > y[i] THEN 1 ELSE -1)
    ELSE LimbsCmp(x, y, i + 1)

\* sign of |a| - |b|, neither being NaN: by exponent, then by mantissa
MagCmp(a, b) == LimbsCmp(a, b, 2)

\* sign of a - b for numbers that are not NaN: -1, 0 or 1 (the two zeros are equal)
NCmp(a, b) ==
    IF IsZero(a) /\ IsZero(b) THEN 0
    ELSE IF a[1] # b[1] THEN (IF a[1] > b[1] THEN 1 ELSE -1)
    ELSE a[1] * MagCmp(a, b)

NLt(a, b) == ~IsNaN(a) /\ ~IsNaN(b) /\ NCmp(a, b) < 0

NGt(a, b) == NLt(b, a)

NLe(a, b) == ~IsNaN(a) /\ ~IsNaN(b) /\ NCmp(a, b) <= 0

NGe(a, b) == NLe(b, a)

\* JavaScript === on numbers (NaN is not equal to itself)
NEq(a, b) == ~IsNaN(a) /\ ~IsNaN(b) /\ NCmp(a, b) = 0

NNe(a, b) == ~NEq(a, b)

\* the product of the mantissa of a and a mantissa of the one limb t (times Limb^3),
\* in limbs <<p7, ..., p0>>
ProductWithLimb(a, t) == Carried(a[3] * t, a[4] * t, a[5] * t, a[6] * t) \o <<0, 0, 0>>

\* whether the mantissa of a has one limb only
OneLimb(a) == a[4] = 0 /\ a[5] = 0 /\ a[6] = 0

\* the product of the mantissas of a and b, in limbs <<p7, ..., p0>>
MantissaProduct(a, b) ==
    IF OneLimb(b) THEN ProductWithLimb(a, b[3])
    ELSE IF OneLimb(a) THEN ProductWithLimb(b, a[3])
    ELSE
    Carried7(a[3] * b[3],
             a[3] * b[4] + a[4] * b[3],
             a[3] * b[5] + a[4] * b[4] + a[5] * b[3],
             a[3] * b[6] + a[4] * b[5] + a[5] * b[4] + a[6] * b[3],
             a[4] * b[6] + a[5] * b[5] + a[6] * b[4],
             a[5] * b[6] + a[6] * b[5],
             a[6] * b[6])

\* s * 2^e * P * Limb^3 rounded, for the limbs p of the product P of two mantissas
RoundedProduct(s, e, p) ==
    Round(s, e, p[1] * Limb + p[2], p[3], p[4], p[5], p[6] # 0 \/ p[7] # 0 \/ p[8] # 0)

NMul(a, b) ==
    IF IsNaN(a) \/ IsNaN(b) THEN NaN
    ELSE IF IsInfinite(a) \/ IsInfinite(b)
    THEN (IF IsZero(a) \/ IsZero(b) THEN NaN ELSE SignedInfinity(a[1] * b[1]))
    ELSE IF IsZero(a) \/ IsZero(b) THEN SignedZero(a[1] * b[1])
    ELSE RoundedProduct(a[1] * b[1], a[2] + b[2] + 3 * LimbBits, MantissaProduct(a, b))

\* the limbs <<t3, t2, t1, t0>> of M * 2^k for the mantissa M of a, 0 <= k <= 3
Scaled(a, k) == Tail(Carried(a[3] * 2 ^ k, a[4] * 2 ^ k, a[5] * 2 ^ k, a[6] * 2 ^ k))

\* the limbs of floor(T / 2^n) for the limbs t of T (any number of them, most
\* significant first), followed by 1 if a one was shifted out and by 0 if not
FloorShift(t, n) ==
    LET len == Len(t)
        ls == n \div LimbBits
        p == 2 ^ (n % LimbBits)
        q == Limb \div p
        limb(j) == IF j >= 1 THEN t[j] ELSE 0
    IN  [i \in 1..(len + 1) |->
            IF i <= len THEN (limb(i - ls) \div p) + (limb(i - ls - 1) % p) * q
            ELSE IF limb(len - ls) % p # 0 \/ \E j \in (len + 1 - ls)..len : j >= 1 /\ t[j] # 0
                 THEN 1 ELSE 0]

\* the four limbs of a floor shift f with the lowest bit set if a one was shifted
\* out (a sticky bit)
Sticky(f) == <<f[1], f[2], f[3], IF f[5] = 1 /\ f[4] % 2 = 0 THEN f[4] + 1 ELSE f[4]>>

\* the limbs of x + sign * y behind their carry, for four limbs x and four limbs y
Combined(x, y, sign) == Carried(x[1] + sign * y[1], x[2] + sign * y[2], x[3] + sign * y[3], x[4] + sign * y[4])

\* s * 2^e * S rounded, for the limbs c of S behind their carry; an exact zero is +0
RoundedSum(s, e, c) ==
    IF c = <<0, 0, 0, 0, 0>> THEN SignedZero(1)
    ELSE Round(s, e, c[1] * Limb + c[2], c[3], c[4], c[5], FALSE)

\* a + b for finite nonzero a, b with |a| >= |b|: the mantissas with three more
\* bits (guard, round and sticky), aligned, added or subtracted, and rounded
AddOrdered(a, b) ==
    RoundedSum(a[1], a[2] - 3,
               Combined(Scaled(a, 3), Sticky(FloorShift(Scaled(b, 3), a[2] - b[2])), a[1] * b[1]))

NAdd(a, b) ==
    IF IsNaN(a) \/ IsNaN(b) THEN NaN
    ELSE IF IsInfinite(a) THEN (IF IsInfinite(b) /\ a[1] # b[1] THEN NaN ELSE a)
    ELSE IF IsInfinite(b) THEN b
    ELSE IF IsZero(a) THEN (IF IsZero(b) THEN SignedZero(IF a[1] = b[1] THEN a[1] ELSE 1) ELSE b)
    ELSE IF IsZero(b) THEN a
    ELSE AddOrdered(IF MagCmp(a, b) >= 0 THEN a ELSE b, IF MagCmp(a, b) >= 0 THEN b ELSE a)

NSub(a, b) == NAdd(a, NNeg(b))

\* the limbs c behind their carry, the carry added to top
Under(top, c) == <<top + c[1], c[2], c[3], c[4], c[5]>>

\* the estimate q of a quotient limb and the remainder r = <<top, r3, r2, r1, r0>> it
\* leaves, corrected: while the remainder is negative the estimate was too high,
\* and D = d[1..4] is added back
RECURSIVE Corrected(_, _, _)
Corrected(q, r, d) ==
    IF r[1] >= 0 THEN <<q, r[2], r[3], r[4], r[5]>>
    ELSE Corrected(q - 1, Under(r[1], Combined(<<r[2], r[3], r[4], r[5]>>, d, 1)), d)

\* r * Limb - q * D for the remainder limbs r[2..5], corrected
Reduced(r, d, q) ==
    Corrected(q, Under(r[2], Combined(<<r[3], r[4], r[5], 0>>, d, -q)), d)

\* one step of the long division by D = d[1..4] (leading limb >= Limb / 2): for the
\* remainder r[2..5] < D, <<q, r'>> with r * Limb = q * D + r', r' < D.  The quotient
\* limb is estimated from the two leading limbs of r and the leading limb of D,
\* which overestimates it by at most 2, and corrected
DivisionStep(r, d) ==
    \* a D of one limb divides the two leading limbs of r * Limb, the rest remains
    IF d[2] = 0 /\ d[3] = 0 /\ d[4] = 0
    THEN <<(r[2] * Limb + r[3]) \div d[1], (r[2] * Limb + r[3]) % d[1], r[4], r[5], 0>>
    ELSE Reduced(r, d, IF (r[2] * Limb + r[3]) \div d[1] >= Limb THEN Limb - 1
                       ELSE (r[2] * Limb + r[3]) \div d[1])

\* the next k quotient limbs of the long division by D after the step that left r,
\* followed by whether a remainder is left after them
RECURSIVE LongDivision(_, _, _)
Continued(r, d, k) == <<r[1]>> \o LongDivision(r, d, k - 1)

LongDivision(r, d, k) ==
    IF k = 0 THEN <<r[2] # 0 \/ r[3] # 0 \/ r[4] # 0 \/ r[5] # 0>>
    ELSE Continued(DivisionStep(r, d), d, k)

\* s * 2^e * Q rounded, for the four limbs of Q and the sticky bit in q
RoundedQuotient(s, e, q) == Round(s, e, q[1], q[2], q[3], q[4], q[5])

\* a / b for finite nonzero a, b: floor(4 * Ma * Limb^4 / (8 * Mb)) has one or two
\* bits more than a mantissa, and the remainder decides the sticky bit
Quotient(a, b) ==
    RoundedQuotient(a[1] * b[1], a[2] - b[2] - (4 * LimbBits - 1),
                    LongDivision(<<0>> \o Scaled(a, 2), Scaled(b, 3), 4))

NDiv(a, b) ==
    IF IsNaN(a) \/ IsNaN(b) THEN NaN
    ELSE IF IsInfinite(a) THEN (IF IsInfinite(b) THEN NaN ELSE SignedInfinity(a[1] * b[1]))
    ELSE IF IsInfinite(b) THEN SignedZero(a[1] * b[1])
    ELSE IF IsZero(b) THEN (IF IsZero(a) THEN NaN ELSE SignedInfinity(a[1] * b[1]))
    ELSE IF IsZero(a) THEN SignedZero(a[1] * b[1])
    ELSE Quotient(a, b)

\* the number n / d for integers n, d: also the value of a decimal literal n / d
Frac(n, d) == NDiv(R(n), R(d))

\* Math.min / Math.max of two numbers: NaN if either is NaN; -0 is below +0
NMin(a, b) ==
    IF IsNaN(a) \/ IsNaN(b) THEN NaN
    ELSE IF NLt(b, a) \/ (IsZero(a) /\ IsZero(b) /\ b[1] < a[1]) THEN b ELSE a

NMax(a, b) ==
    IF IsNaN(a) \/ IsNaN(b) THEN NaN
    ELSE IF NGt(b, a) \/ (IsZero(a) /\ IsZero(b) /\ b[1] > a[1]) THEN b ELSE a

(***************************************************************************)
(* Square root, rounding to an integer, and the decimal digits of a number *)
(***************************************************************************)
\* the square of the four limbs f, in eight limbs
Square(f) == MantissaProduct(<<1, 0, f[1], f[2], f[3], f[4]>>, <<1, 0, f[1], f[2], f[3], f[4]>>)

\* the four limbs f plus the small integer d
Moved(f, d) == Tail(Carried(f[1], f[2], f[3], f[4] + d))

\* the integer square root of A (eight limbs), the F with F^2 <= A < (F + 1)^2,
\* reached from an approximation f of it
RECURSIVE IntegerRoot(_, _)
IntegerRoot(A, f) ==
    IF LimbsCmp(Square(f), A, 1) > 0 THEN IntegerRoot(A, Moved(f, -1))
    ELSE IF LimbsCmp(Square(Moved(f, 1)), A, 1) <= 0 THEN IntegerRoot(A, Moved(f, 1))
    ELSE f

\* k steps of Heron's method for the square root of x, from y
RECURSIVE Heron(_, _, _)
Heron(x, y, k) == IF k = 0 THEN y ELSE Heron(x, NDiv(NAdd(y, NDiv(x, y)), R(2)), k - 1)

\* M * 2^(MantissaBits + 1) = M * 2^12 * Limb^3 in eight limbs, for the limbs m of M
Radicand(m) ==
    <<m[1] \div 4, (m[1] % 4) * 4096 + (m[2] \div 4), (m[2] % 4) * 4096 + (m[3] \div 4),
      (m[3] % 4) * 4096 + (m[4] \div 4), (m[4] % 4) * 4096, 0, 0, 0>>

\* 2^e * sqrt(A) rounded, for the integer square root F of A
RoundedRoot(e, A, F) == Round(1, e, F[1], F[2], F[3], F[4], Square(F) # A)

\* 2^e * sqrt(A) rounded, for an approximation y of sqrt(A) / 2^((MantissaBits + 1) / 2)
RootNear(e, A, y) ==
    RoundedRoot(e, A, IntegerRoot(A, Scaled(y, (MantissaBits + 1) \div 2 + y[2])))

\* sqrt(a) for a = M * 2^e with e - odd even: sqrt(M * 2^odd * 2^(MantissaBits + 1))
\* * 2^((e - odd - MantissaBits - 1) / 2).  The integer square root of
\* A = M * 2^odd * 2^(MantissaBits + 1) has one bit more than a mantissa, and whether
\* it is exact decides the sticky bit.  It is found from an approximation of
\* sqrt(M * 2^odd), which Heron's method gives from 3/2 * 2^((MantissaBits - 1) / 2)
Root(a, odd) ==
    RootNear((a[2] - odd - (MantissaBits + 1)) \div 2, Radicand(Scaled(a, odd)),
             Heron(<<1, odd, a[3], a[4], a[5], a[6]>>,
                   <<1, -MantissaBits + 1 + (MantissaBits - 1) \div 2, 3 * 2 ^ (TopBits - 2), 0, 0, 0>>, 6))

\* Math.sqrt
NSqrt(a) ==
    IF IsNaN(a) THEN NaN
    ELSE IF IsZero(a) THEN a
    ELSE IF a[1] < 0 THEN NaN
    ELSE IF IsInfinite(a) THEN a
    ELSE Root(a, a[2] % 2)

\* the integer h[i] * Limb^2 + h[i + 1] * Limb + h[i + 2], halved and floored
HalfOfLimbs(h, i) == h[i] * ((Limb * Limb) \div 2) + ((h[i + 1] * Limb + h[i + 2]) \div 2)

\* the integer of the limbs h[6..8] of twice a value, halved and rounded half up
HalfUp(h) == HalfOfLimbs(h, 6) + (h[8] % 2)

\* the integer floor(|a| * scale + 1/2) for a finite a and 1 <= scale < Limb^2, where
\* it is below 2^31: the digits of |a| * scale rounded half up
RoundedScaled(a, scale) ==
    IF IsZero(a) \/ -a[2] - 1 >= 8 * LimbBits THEN 0
    \* twice the value, floored: the last bit is the half
    ELSE HalfUp(FloorShift(MantissaProduct(a, <<1, 0, 0, 0, scale \div Limb, scale % Limb>>), -a[2] - 1))

\* the integer nearest to s * H / 2 for the limbs h[1..4] of H and the flag h[5] of a
\* fraction behind them, halves rounded up (towards positive infinity)
HalfTowardsPositive(s, h) ==
    IF s > 0 THEN HalfOfLimbs(h, 2) + (h[4] % 2)
    \* -(I + f) rounds to -I for f <= 1/2, to -(I + 1) beyond
    ELSE -(HalfOfLimbs(h, 2) + (IF h[4] % 2 = 1 /\ h[5] = 1 THEN 1 ELSE 0))

\* Math.round(a) as an integer, for a finite a with |a| < 2^31
NRound(a) ==
    IF IsZero(a) \/ -a[2] - 1 >= 4 * LimbBits THEN 0
    ELSE HalfTowardsPositive(a[1], FloorShift(<<a[3], a[4], a[5], a[6]>>, -a[2] - 1))

\* array.reduce((sum, v) => sum + v, 0) and the loops that add up from 0: the
\* elements are added one by one, from the left
RECURSIVE SumFrom(_, _, _)
SumFrom(sum, s, i) == IF i > Len(s) THEN sum ELSE SumFrom(NAdd(sum, s[i]), s, i + 1)

NSum(s) == SumFrom(R(0), s, 1)

(***************************************************************************)
(* Sequences                                                               *)
(***************************************************************************)
\* faulty variant of Remove: nothing is spliced out (C16's formula must notice)
KeepAll(s, i) == s

\* s.splice(i, 1), i counted from 1
Remove(s, i) == Tup([k \in 1..(Len(s) - 1) |-> IF k < i THEN s[k] ELSE s[k + 1]])

\* End[i] = Len(ss[1]) + ... + Len(ss[i])
EndOfPart(ss) ==
    LET End[i \in 0..Len(ss)] == IF i = 0 THEN 0 ELSE End[i - 1] + Len(ss[i])
    IN  Tup([i \in 1..Len(ss) |-> End[i]])

\* the concatenation ss[1] \o ss[2] \o ... of a sequence of sequences: what a loop
\* that pushes zero or more elements per round leaves in the array
Concat(ss0) ==
    The({ The({ Tup([k \in 1..(IF Len(ss) = 0 THEN 0 ELSE end[Len(ss)]) |->
                       The({ ss[i][k - (end[i] - Len(ss[i]))]
                             : i \in {CHOOSE i \in 1..Len(ss) :
                                         end[i] - Len(ss[i]) < k /\ k <= end[i]} })])
                : end \in {EndOfPart(ss)} })
          : ss \in {ss0} })

\* the concatenation of the strings ss[lo], ..., ss[hi]
RECURSIVE JoinRange(_, _, _)
JoinRange(ss, lo, hi) ==
    IF lo > hi THEN ""
    ELSE IF lo = hi THEN ss[lo]
    ELSE JoinRange(ss, lo, (lo + hi) \div 2) \o JoinRange(ss, (lo + hi) \div 2 + 1, hi)

Join(ss0) == The({JoinRange(ss, 1, Len(ss)) : ss \in {ss0}})

(***************************************************************************)
(* Array.prototype.sort with a comparator.  The sort is stable and a       *)
(* comparator result of NaN counts as 0.  Every comparator of the program  *)
(* is "first key if the first keys differ, else second key", ascending, so *)
(* a comparator is given by a pair of keys per element.  The comparators   *)
(* met here are consistent (a NaN result occurs only where every result is *)
(* NaN), and for a consistent comparator the sorted array is determined:   *)
(* an element comes after the earlier elements that are not to be placed   *)
(* after it and after the later elements it is to be placed after.  For an *)
(* inconsistent comparator the array is implementation-defined, and        *)
(* SortPerm is undefined.                                                  *)
(***************************************************************************)
\* comparator(a, b) > 0: a is placed after b.  The comparator returns the
\* difference of the first keys if they differ (!==), else of the second keys, and
\* the difference of two numbers is positive exactly if the first is the greater
After(ka, kb) ==
    IF NNe(ka[1], kb[1]) THEN NGt(ka[1], kb[1]) ELSE NGt(ka[2], kb[2])

\* the element at index j is placed before the element at index i
Precedes(keys, j, i) ==
    IF j < i THEN ~After(keys[j], keys[i]) ELSE After(keys[i], keys[j])

\* the permutation that sorts keys: SortPerm(keys)[r] is the index of the element placed r-th
SortPerm(ks) ==
    The({ The({ Tup([r \in 1..Len(keys) |-> CHOOSE i \in 1..Len(keys) : place[i] = r])
                : place \in {Tup([i \in 1..Len(keys) |->
                                    1 + Cardinality({j \in 1..Len(keys) :
                                                       j # i /\ Precedes(keys, j, i)})])} })
          : keys \in {ks} })

SortByKeys(s0, ks) ==
    The({Tup([i \in 1..Len(s) |-> s[p[i]]]) : s \in {s0}, p \in {SortPerm(ks)}})

\* key pair of a comparator (a, b) => b.v - a.v
DescKey(v) == <<NNeg(v), R(0)>>

(***************************************************************************)
(* Photos                                                                  *)
(***************************************************************************)
AspectRatio(p) == Frac(p.width, p.height)

\* [...photos].sort((a, b) => bRatio - aRatio)
SortPhotos(ps) == SortByKeys(ps, Tup([i \in 1..Len(ps) |-> DescKey(AspectRatio(ps[i]))]))

(***************************************************************************)
(* Arithmetic expressions of the program's tables, kept as written,        *)
(* operation by operation.  Value computes one on a page the way the       *)
(* program does: every operation rounded.                                  *)
(***************************************************************************)
\* pageSize.width and pageSize.height in an expression
PageWidth == <<"width">>
PageHeight == <<"height">>
\* an integer literal, and a decimal literal n / d (0.6 is Dec(6, 10))
Lit(n) == <<"literal", n, 1>>
Dec(n, d) == <<"literal", n, d>>
\* a + b, a - b, a * b, a / b
Plus(a, b) == <<"+", a, b>>
Minus(a, b) == <<"-", a, b>>
Times(a, b) == <<"*", a, b>>
Over(a, b) == <<"/", a, b>>

\* one arithmetic operation of an expression on its two computed operands
Applied(op, a, b) ==
    IF op = "+" THEN NAdd(a, b)
    ELSE IF op = "-" THEN NSub(a, b)
    ELSE IF op = "*" THEN NMul(a, b)
    ELSE NDiv(a, b)

\* the number an expression evaluates to on a page
RECURSIVE Value(_, _)
Value(e, page) ==
    IF e[1] = "width" THEN R(page.width)
    ELSE IF e[1] = "height" THEN R(page.height)
    ELSE IF e[1] = "literal" THEN (IF e[3] = 1 THEN R(e[2]) ELSE Frac(e[2], e[3]))
    ELSE Applied(e[1], Value(e[2], page), Value(e[3], page))

\* the numbers of a list of expressions on a page
Values(es, page) == Tup([j \in 1..Len(es) |-> Value(es[j], page)])

\* the page of expressions that name no page
NoPage == [width |-> 0, height |-> 0]
(***************************************************************************)
(* Layout descriptors (normalized 0..1 coordinates)                        *)
(***************************************************************************)
DCell(i, x, y, w, h) == [photoIndex |-> i, x |-> x, y |-> y, width |-> w, height |-> h]

createGridDescriptor(rows, cols) ==
    The({ [type |-> "grid",
           name |-> "grid-" \o ToString(rows) \o "x" \o ToString(cols),
           cells |-> Tup([k \in 1..(rows * cols) |->
                        LET row == (k - 1) \div cols
                            col == (k - 1) % cols
                        IN  DCell(row * cols + col,
                                  NMul(R(col), cellWidth), NMul(R(row), cellHeight),
                                  cellWidth, cellHeight)])]
          : cellWidth \in {NDiv(R(1), R(cols))}, cellHeight \in {NDiv(R(1), R(rows))} })

\* faulty variant of createHorizontalSplitDescriptor: the bottom row counts its
\* photoIndex from 0 again, not from topCount (C18's formula must notice)
BottomIndexFromZero(topCount, bottomCount) ==
    The({ [type |-> "split",
           name |-> "hsplit-" \o ToString(topCount) \o "-" \o ToString(bottomCount),
           cells |->
              (IF topCount > 0
               THEN The({ Tup([k \in 1..topCount |->
                                 DCell(k - 1, NMul(R(k - 1), topCellWidth), R(0),
                                       topCellWidth, topHeight)])
                          : topCellWidth \in {NDiv(R(1), R(topCount))} })
               ELSE <<>>)
              \o
              (IF bottomCount > 0
               THEN The({ Tup([k \in 1..bottomCount |->
                                 DCell(k - 1, NMul(R(k - 1), bottomCellWidth),
                                       topHeight, bottomCellWidth, bottomHeight)])
                          : bottomCellWidth \in {NDiv(R(1), R(bottomCount))} })
               ELSE <<>>)]
          : topHeight \in {Frac(1, 2)}, bottomHeight \in {Frac(1, 2)} })

createHorizontalSplitDescriptor(topCount, bottomCount) ==
    The({ [type |-> "split",
           name |-> "hsplit-" \o ToString(topCount) \o "-" \o ToString(bottomCount),
           cells |->
              (IF topCount > 0
               THEN The({ Tup([k \in 1..topCount |->
                                 DCell(k - 1, NMul(R(k - 1), topCellWidth), R(0),
                                       topCellWidth, topHeight)])
                          : topCellWidth \in {NDiv(R(1), R(topCount))} })
               ELSE <<>>)
              \o
              (IF bottomCount > 0
               THEN The({ Tup([k \in 1..bottomCount |->
                                 DCell(topCount + k - 1, NMul(R(k - 1), bottomCellWidth),
                                       topHeight, bottomCellWidth, bottomHeight)])
                          : bottomCellWidth \in {NDiv(R(1), R(bottomCount))} })
               ELSE <<>>)]
          : topHeight \in {Frac(1, 2)}, bottomHeight \in {Frac(1, 2)} })

createVerticalSplitDescriptor(leftCount, rightCount, splitRatio) ==
    The({ [type |-> "split",
           name |-> "vsplit-" \o ToString(leftCount) \o "-" \o ToString(rightCount),
           cells |->
              (IF leftCount > 0
               THEN The({ Tup([k \in 1..leftCount |->
                                 DCell(k - 1, R(0), NMul(R(k - 1), leftCellHeight),
                                       leftWidth, leftCellHeight)])
                          : leftCellHeight \in {NDiv(R(1), R(leftCount))} })
               ELSE <<>>)
              \o
              (IF rightCount > 0
               THEN The({ Tup([k \in 1..rightCount |->
                                 DCell(leftCount + k - 1, leftWidth,
                                       NMul(R(k - 1), rightCellHeight),
                                       rightWidth, rightCellHeight)])
                          : rightCellHeight \in {NDiv(R(1), R(rightCount))} })
               ELSE <<>>)]
          : leftWidth \in {splitRatio}, rightWidth \in {NSub(R(1), splitRatio)} })

\* default value of createVerticalSplitDescriptor's splitRatio parameter
DefaultSplitRatio == Frac(1, 2)

\* the position and size of a cell, as a list
Rectangle(c) == <<c.x, c.y, c.width, c.height>>

\* the cell of index i with the position and size v
DCellAt(i, v) == DCell(i, v[1], v[2], v[3], v[4])

\* a hard-coded descriptor, written with the literals of the program
Composite(name, cells) == [type |-> "composite", name |-> name, cells |-> cells]

\* the descriptor object of a hard-coded descriptor: every literal is a number
Described(d) ==
    [d EXCEPT !.cells = Tup([i \in 1..Len(d.cells) |->
                               DCellAt(d.cells[i].photoIndex, Values(Rectangle(d.cells[i]), NoPage))])]

leftOneRightTwo ==
    Composite("left-one-right-two",
              << DCell(0, Lit(0), Lit(0), Dec(1, 2), Dec(1, 2)),
                 DCell(1, Dec(1, 2), Lit(0), Dec(1, 2), Dec(1, 4)),
                 DCell(2, Dec(1, 2), Dec(1, 4), Dec(1, 2), Dec(1, 4)),
                 DCell(3, Lit(0), Dec(1, 2), Dec(1, 2), Dec(1, 2)),
                 DCell(4, Dec(1, 2), Dec(1, 2), Dec(1, 2), Dec(1, 4)),
                 DCell(5, Dec(1, 2), Dec(3, 4), Dec(1, 2), Dec(1, 4)) >>)

leftTwoRightOne ==
    Composite("left-two-right-one",
              << DCell(0, Lit(0), Lit(0), Dec(1, 2), Dec(1, 4)),
                 DCell(1, Lit(0), Dec(1, 4), Dec(1, 2), Dec(1, 4)),
                 DCell(2, Dec(1, 2), Lit(0), Dec(1, 2), Dec(1, 2)),
                 DCell(3, Lit(0), Dec(1, 2), Dec(1, 2), Dec(1, 4)),
                 DCell(4, Lit(0), Dec(3, 4), Dec(1, 2), Dec(1, 4)),
                 DCell(5, Dec(1, 2), Dec(1, 2), Dec(1, 2), Dec(1, 2)) >>)

threeThreeOne ==
    Composite("three-three-one",
              << DCell(0, Lit(0), Lit(0), Over(Lit(1), Lit(3)), Over(Lit(1), Lit(3))),
                 DCell(1, Over(Lit(1), Lit(3)), Lit(0), Over(Lit(1), Lit(3)), Over(Lit(1), Lit(3))),
                 DCell(2, Over(Lit(2), Lit(3)), Lit(0), Over(Lit(1), Lit(3)), Over(Lit(1), Lit(3))),
                 DCell(3, Lit(0), Over(Lit(1), Lit(3)), Over(Lit(1), Lit(3)), Over(Lit(1), Lit(3))),
                 DCell(4, Over(Lit(1), Lit(3)), Over(Lit(1), Lit(3)), Over(Lit(1), Lit(3)), Over(Lit(1), Lit(3))),
                 DCell(5, Over(Lit(2), Lit(3)), Over(Lit(1), Lit(3)), Over(Lit(1), Lit(3)), Over(Lit(1), Lit(3))),
                 DCell(6, Lit(0), Over(Lit(2), Lit(3)), Lit(1), Over(Lit(1), Lit(3))) >>)

twoThreeTwo ==
    Composite("two-three-two",
              << DCell(0, Lit(0), Lit(0), Dec(1, 2), Over(Lit(1), Lit(3))),
                 DCell(1, Dec(1, 2), Lit(0), Dec(1, 2), Over(Lit(1), Lit(3))),
                 DCell(2, Lit(0), Over(Lit(1), Lit(3)), Over(Lit(1), Lit(3)), Over(Lit(1), Lit(3))),
                 DCell(3, Over(Lit(1), Lit(3)), Over(Lit(1), Lit(3)), Over(Lit(1), Lit(3)), Over(Lit(1), Lit(3))),
                 DCell(4, Over(Lit(2), Lit(3)), Over(Lit(1), Lit(3)), Over(Lit(1), Lit(3)), Over(Lit(1), Lit(3))),
                 DCell(5, Lit(0), Over(Lit(2), Lit(3)), Dec(1, 2), Over(Lit(1), Lit(3))),
                 DCell(6, Dec(1, 2), Over(Lit(2), Lit(3)), Dec(1, 2), Over(Lit(1), Lit(3))) >>)

\* faulty variant of getLayoutDescriptorsForPhotoCount: one row for one photo too
\* few (C8's formula must notice)
GridRowForOneFewer(photoCount) ==
    IF photoCount > 1 THEN <<createGridDescriptor(1, photoCount - 1)>> ELSE <<>>

getLayoutDescriptorsForPhotoCount(photoCount) ==
    LET grids == Concat(Tup([rows \in 1..photoCount |->
                               IF photoCount % rows = 0
                               THEN <<createGridDescriptor(rows, photoCount \div rows)>>
                               ELSE <<>>]))
        special == IF photoCount = 6 THEN <<leftOneRightTwo, leftTwoRightOne>>
                   ELSE IF photoCount = 7 THEN <<threeThreeOne, twoThreeTwo>>
                   ELSE <<>>
        composites == Tup([i \in 1..Len(special) |-> Described(special[i])])
        vsplits == Tup([leftCount \in 1..(photoCount - 1) |->
                          createVerticalSplitDescriptor(leftCount, photoCount - leftCount,
                                                        DefaultSplitRatio)])
        hsplits == Tup([topCount \in 1..(photoCount - 1) |->
                          createHorizontalSplitDescriptor(topCount, photoCount - topCount)])
    IN  grids \o composites \o vsplits \o hsplits

(***************************************************************************)
(* Cells and layouts in absolute (page) coordinates                        *)
(***************************************************************************)
Cell(photo, x, y, w, h) == [photo |-> photo, x |-> x, y |-> y, width |-> w, height |-> h]

PosKeyYX(c) == <<c.y, c.x>>

PosKeyXY(c) == <<c.x, c.y>>

\* cells.sort((a, b) => a.y !== b.y ? a.y - b.y : a.x - b.x)
SortCellsYX(cs) ==
    The({SortByKeys(cells, Tup([i \in 1..Len(cells) |-> PosKeyYX(cells[i])])) : cells \in {cs}})

\* cells.sort((a, b) => a.x !== b.x ? a.x - b.x : a.y - b.y)
SortCellsXY(cs) ==
    The({SortByKeys(cells, Tup([i \in 1..Len(cells) |-> PosKeyXY(cells[i])])) : cells \in {cs}})

\* photos.forEach((photo, index) => ...) from the photo at index on (1-based; the
\* program's indices are 0-based), with the bestIndex and minDifference the earlier
\* rounds left:
\*   const difference = Math.abs(photo.width / photo.height - targetAspectRatio);
\*   if (difference < minDifference) { minDifference = difference; bestIndex = index; }
RECURSIVE BestMatchFrom(_, _, _, _, _)
BestMatchFrom(pool, targetAspectRatio, index, bestIndex, minDifference) ==
    IF index > Len(pool) THEN bestIndex
    ELSE The({ IF NLt(difference, minDifference)
               THEN BestMatchFrom(pool, targetAspectRatio, index + 1, index, difference)
               ELSE BestMatchFrom(pool, targetAspectRatio, index + 1, bestIndex, minDifference)
               : difference \in {NAbs(NSub(AspectRatio(pool[index]), targetAspectRatio))} })

\* faulty variant of findBestMatchingPhotoIndex: the first photo of the pool is
\* taken whatever its aspect ratio (C15's formula must notice)
FirstOfPool(pool, targetAspectRatio) == 1

\* let bestIndex = 0; let minDifference = Infinity; the loop; return bestIndex
findBestMatchingPhotoIndex(pool, targetAspectRatio) ==
    The({ BestMatchFrom(ps, target, 1, 1, Infinity)
          : ps \in {pool}, target \in {targetAspectRatio} })

\* the values the greedy assignment loop works on: numbers, photos (or undefined),
\* cells carrying aspectRatio, and the loop state <<cells bound so far, remaining photos>>
Number == Int \X Int \X Int \X Int \X Int \X Int

PhotoOrNull == [id : Int, width : Int, height : Int] \cup {Null}

AspectCell ==
    [photo : PhotoOrNull, x : Number, y : Number, width : Number, height : Number,
     aspectRatio : Number]

GreedyState == Seq(AspectCell) \X Seq(PhotoOrNull)

\* the greedy assignment loop shared by all optimized layouts: the cells (already
\* carrying aspectRatio) are sorted by aspectRatio descending, then each takes the
\* best matching photo of the remaining pool; the result is in processing order
AssignGreedy(pool, cs) ==
    The({ LET \* one round of the loop: the state after cell i is served
              Bind[st \in GreedyState, i \in 1..Len(sorted)] ==
                  The({ IF best <= Len(st[2])
                        THEN <<Append(st[1], [sorted[i] EXCEPT !.photo = st[2][best]]),
                               Remove(st[2], best)>>
                        ELSE <<Append(st[1], [sorted[i] EXCEPT !.photo = Null]), st[2]>>
                        : best \in {findBestMatchingPhotoIndex(st[2], sorted[i].aspectRatio)} })
              \* St[i] = <<cells bound so far, remaining photos>>
              St[i \in 0..Len(sorted)] ==
                  IF i = 0 THEN <<<< >>, pool>> ELSE Bind[St[i - 1], i]
          IN  St[Len(sorted)][1]
          : sorted \in {The({SortByKeys(cells, Tup([i \in 1..Len(cells) |->
                                                      DescKey(cells[i].aspectRatio)]))
                             : cells \in {cs}})} })

WithAspect(c) ==
    [photo |-> c.photo, x |-> c.x, y |-> c.y, width |-> c.width, height |-> c.height,
     aspectRatio |-> NDiv(c.width, c.height)]

(***************************************************************************)
(* Descriptor-based generator                                              *)
(***************************************************************************)
\* faulty variant of createLayoutFromDescriptor: the test photoIndex < photos.length
\* is missing, a cell beyond the photos is kept without photo (C21's formula must
\* notice)
KeepEveryCell(ps, page, descriptor) ==
    [type |-> descriptor.type,
     name |-> descriptor.name,
     cells |-> Tup([i \in 1..Len(descriptor.cells) |->
                      Cell(IF descriptor.cells[i].photoIndex < Len(ps)
                           THEN ps[descriptor.cells[i].photoIndex + 1] ELSE Null,
                           NMul(descriptor.cells[i].x, R(page.width)),
                           NMul(descriptor.cells[i].y, R(page.height)),
                           NMul(descriptor.cells[i].width, R(page.width)),
                           NMul(descriptor.cells[i].height, R(page.height)))])]

createLayoutFromDescriptor(ps, page, descriptor) ==
    [type |-> descriptor.type,
     name |-> descriptor.name,
     cells |->
        LET d == descriptor.cells
            cellOf(cd) == Cell(ps[cd.photoIndex + 1],
                               NMul(cd.x, R(page.width)), NMul(cd.y, R(page.height)),
                               NMul(cd.width, R(page.width)), NMul(cd.height, R(page.height)))
        IN  Concat(Tup([i \in 1..Len(d) |->
                          IF d[i].photoIndex < Len(ps) THEN <<cellOf(d[i])>> ELSE <<>>]))]

\* a name that counts as false: the empty string, undefined or null
NoName(name) == ToString(name) \in {ToString(""), ToString(Null)}

createOptimizedLayoutD(ps, cs, name) ==
    [type |-> "optimized",
     name |-> IF NoName(name) THEN "optimized" ELSE name,
     cells |-> The({ SortCellsYX(AssignGreedy(ps, Tup([i \in 1..Len(cells) |-> WithAspect(cells[i])])))
                     : cells \in {cs} })]

\* Math.round(v * 100): NaN and the infinities are kept, a finite number goes to
\* the nearest integer, halves up
Round100(v) ==
    LET t == NMul(v, R(100))
    IN  IF IsFinite(t) THEN R(NRound(t)) ELSE t

Digit2(k) == IF k < 10 THEN "0" \o ToString(k) ELSE ToString(k)

\* String(h / 100) for an integer h, as JavaScript prints the number: the shortest
\* decimal that reads back as the quotient, which is h / 100 without its final zeros
HundredthsToString(h) ==
    IF IsNaN(h) THEN "NaN"
    ELSE IF IsInfinite(h) THEN (IF h[1] > 0 THEN "Infinity" ELSE "-Infinity")
    ELSE LET k == NRound(h)
             a == IAbs(k)
             int == a \div 100
             frac == a % 100
             sign == IF k < 0 THEN "-" ELSE ""
         IN  IF frac = 0 THEN sign \o ToString(int)
             ELSE IF frac % 10 = 0 THEN sign \o ToString(int) \o "." \o ToString(frac \div 10)
             ELSE sign \o ToString(int) \o "." \o Digit2(frac)

\* `${layout.name}`: a layout object without a name prints "undefined"
NameString(layout) == IF "name" \in DOMAIN layout THEN layout.name ELSE "undefined"

getLayoutSignatureD(layout, page) ==
    The({ LET part(c) ==
                  "[" \o HundredthsToString(Round100(NDiv(c.x, R(page.width))))
                  \o "," \o HundredthsToString(Round100(NDiv(c.y, R(page.height))))
                  \o "," \o HundredthsToString(Round100(NDiv(c.width, R(page.width))))
                  \o "," \o HundredthsToString(Round100(NDiv(c.height, R(page.height))))
                  \o "]"
          IN  layout.type \o "-" \o NameString(layout) \o ":"
              \o Join(Tup([i \in 1..Len(sortedCells) |-> part(sortedCells[i])]))
          : sortedCells \in {SortCellsYX(layout.cells)} })

\* duplicateOf: null (the indices stored in duplicateOf start at 1)
NoDuplicate == 0

\* index of the first element of sig that equals sig[i]
FirstWith(sig, i) == CHOOSE j \in 1..i : sig[j] = sig[i] /\ \A k \in 1..(j - 1) : sig[k] # sig[i]

\* faulty variant of removeDuplicateLayoutsD: a later layout is flagged with
\* originalIndex itself, not originalIndex + 1 (C17's formula must notice)
FlagWithOriginalIndex(ls0, page) ==
    The({ The({ Tup([i \in 1..Len(ls) |->
                       Spread(ls[i], [duplicateOf |-> IF FirstWith(sig, i) = i THEN NoDuplicate
                                                      ELSE FirstWith(sig, i) - 1])])
                : sig \in {Tup([i \in 1..Len(ls) |-> getLayoutSignatureD(ls[i], page)])} })
          : ls \in {ls0} })

\* lenient deduplication: every layout is kept; duplicateOf is null on the first
\* layout of a signature and the 1-based index of that first layout on later ones
removeDuplicateLayoutsD(ls0, page) ==
    The({ The({ Tup([i \in 1..Len(ls) |->
                       Spread(ls[i], [duplicateOf |-> IF FirstWith(sig, i) = i THEN NoDuplicate
                                                      ELSE (FirstWith(sig, i) - 1) + 1])])
                : sig \in {Tup([i \in 1..Len(ls) |-> getLayoutSignatureD(ls[i], page)])} })
          : ls \in {ls0} })

calculateUtilizationD(layout, page) ==
    LET totalPageArea == NMul(R(page.width), R(page.height))
        c == layout.cells
        used == NSum(Tup([i \in 1..Len(c) |-> NMul(c[i].width, c[i].height)]))
    IN  NDiv(used, totalPageArea)

\* faulty variant of CellCroppingRateD: the photo is always scaled to the cell's
\* height, whichever aspect ratio is larger (C26's formula must notice)
WidthOverflowOnly(cell) ==
    The({ NMax(R(0), NMin(NDiv(NSub(scaledPhotoWidth, cell.width), scaledPhotoWidth), R(1)))
          : scaledPhotoWidth \in {NMul(cell.height, AspectRatio(cell.photo))} })

\* the crop fraction of one cell: the photo scaled to cover the cell, clamped to [0, 1]
CellCroppingRateD(cell) ==
    The({ The({ NMax(R(0), NMin(croppingRate, R(1)))
                : croppingRate \in {
                    IF NGt(cellAspectRatio, photoAspectRatio)
                    THEN The({ NDiv(NSub(scaledPhotoHeight, cell.height), scaledPhotoHeight)
                               : scaledPhotoHeight \in {NDiv(cell.width, photoAspectRatio)} })
                    ELSE The({ NDiv(NSub(scaledPhotoWidth, cell.width), scaledPhotoWidth)
                               : scaledPhotoWidth \in {NMul(cell.height, photoAspectRatio)} }) } })
          : cellAspectRatio \in {NDiv(cell.width, cell.height)},
            photoAspectRatio \in {AspectRatio(cell.photo)} })

\* geometric scaled-overflow cropping rate, averaged over the cells that have a photo
calculateCroppingRateD(layout) ==
    The({ The({ IF validCells = 0 THEN R(0)
                ELSE NDiv(NSum(Tup([i \in 1..Len(c) |->
                                      IF c[i].photo = Null THEN R(0) ELSE CellCroppingRateD(c[i])])),
                          R(validCells))
                : validCells \in {Cardinality({i \in 1..Len(c) : c[i].photo # Null})} })
          : c \in {layout.cells} })

Areas(layout) ==
    Tup([i \in 1..Len(layout.cells) |-> NMul(layout.cells[i].width, layout.cells[i].height)])

\* Math.pow(v, 2): the square of v, rounded like a product
Squared(v) == NMul(v, v)

\* the sum of (area - avgArea)^2 over the areas, divided by their number
Variance(areas, avgArea) ==
    NDiv(NSum(Tup([i \in 1..Len(areas) |-> Squared(NSub(areas[i], avgArea))])),
         R(Len(areas)))

\* 1 - min(cv, 1) with cv = stdDev / avgArea
calculateSizeBalanceD(layout) ==
    The({ The({ LET variance == Variance(areas, avgArea)
                    stdDev == NSqrt(variance)
                    cv == NDiv(stdDev, avgArea)
                IN  NSub(R(1), NMin(cv, R(1)))
                : avgArea \in {NDiv(NSum(areas), R(Len(areas)))} })
          : areas \in {Areas(layout)} })

\* totalScore = utilizationScore * 0.4 + (1 - croppingScore) * 0.4 + balanceScore * 0.2
ScoreD(utilizationScore, croppingScore, balanceScore) ==
    NAdd(NAdd(NMul(utilizationScore, Frac(4, 10)),
              NMul(NSub(R(1), croppingScore), Frac(4, 10))),
         NMul(balanceScore, Frac(2, 10)))

\* { ...layout, score, metrics }
ScoredD(layout, utilizationScore, croppingScore, balanceScore) ==
    Spread(layout,
           [score |-> ScoreD(utilizationScore, croppingScore, balanceScore),
            metrics |-> [utilization |-> utilizationScore, croppingRate |-> croppingScore,
                         sizeBalance |-> balanceScore]])

\* scoredLayouts.sort((a, b) => b.score - a.score)
SortByScore(ls0) ==
    The({SortByKeys(ls, Tup([i \in 1..Len(ls) |-> DescKey(ls[i].score)])) : ls \in {ls0}})

scoreLayoutsD(ls0, page) ==
    The({ SortByScore(Tup([i \in 1..Len(ls) |->
              The({ ScoredD(ls[i], utilizationScore, croppingScore, balanceScore)
                    : utilizationScore \in {calculateUtilizationD(ls[i], page)},
                      croppingScore \in {calculateCroppingRateD(ls[i])},
                      balanceScore \in {calculateSizeBalanceD(ls[i])} })]))
          : ls \in {ls0} })

\* the layouts generateLayouts builds before deduplication: one sequential layout per
\* descriptor, then one optimized layout per descriptor
LayoutsOfDescriptors(sorted0, page, ds0) ==
    The({ Tup([i \in 1..Len(ds) |-> createLayoutFromDescriptor(sorted, page, ds[i])])
          \o
          Tup([i \in 1..Len(ds) |->
                 The({ createOptimizedLayoutD(sorted, layout.cells, layout.name \o "-optimized")
                       : layout \in {createLayoutFromDescriptor(sorted, page, ds[i])} })])
          : sorted \in {sorted0}, ds \in {ds0} })

BuildLayoutsD(sorted0, page) ==
    LayoutsOfDescriptors(sorted0, page, getLayoutDescriptorsForPhotoCount(Len(sorted0)))

generateLayoutsD(ps, page) ==
    IF NoPhotos(ps) THEN <<>>
    ELSE scoreLayoutsD(removeDuplicateLayoutsD(BuildLayoutsD(SortPhotos(ps), page), page), page)

(***************************************************************************)
(* Hand-unrolled generator with strict deduplication                       *)
(***************************************************************************)
\* the rectangle of a cell
Box(x, y, w, h) == [x |-> x, y |-> y, width |-> w, height |-> h]

\* a cell of an orientation-optimized layout before its photo is assigned:
\* { x, y, width, height, aspectRatio: width / height }
OCell(b) ==
    [photo |-> Null, x |-> b.x, y |-> b.y, width |-> b.width, height |-> b.height,
     aspectRatio |-> NDiv(b.width, b.height)]

\* the cells of a layout whose rectangles are bs (in creation order): photo k in
\* rectangle k, or, orientation-optimized, the greedy assignment followed by the
\* position sort (by y then x, or by x then y for column layouts)
PlaceCells(ps, bs0, optimizeOrientation, byColumn) ==
    The({ IF optimizeOrientation
          THEN The({ IF byColumn THEN SortCellsXY(assigned) ELSE SortCellsYX(assigned)
                     : assigned \in {AssignGreedy(ps, Tup([k \in 1..Len(bs) |-> OCell(bs[k])]))} })
          ELSE Tup([k \in 1..Len(bs) |->
                      Cell(IF k <= Len(ps) THEN ps[k] ELSE Null,
                           bs[k].x, bs[k].y, bs[k].width, bs[k].height)])
          : bs \in {bs0} })

\* the rectangles of a grid of rows x photosPerRow cells, row after row
GridBoxes(page, rows, photosPerRow) ==
    The({ Tup([k \in 1..(rows * photosPerRow) |->
                 LET i == (k - 1) \div photosPerRow
                     j == (k - 1) % photosPerRow
                 IN  Box(NMul(R(j), cellWidth), NMul(R(i), cellHeight), cellWidth, cellHeight)])
          : cellWidth \in {NDiv(R(page.width), R(photosPerRow))},
            cellHeight \in {NDiv(R(page.height), R(rows))} })

createHStackLayout(ps, page, rows, photosPerRow, optimizeOrientation) ==
    [type |-> "hstack", rows |-> rows, photosPerRow |-> photosPerRow,
     cells |-> PlaceCells(ps, GridBoxes(page, rows, photosPerRow), optimizeOrientation, FALSE)]

generateHStackLayouts(ps, page) ==
    LET n == Len(ps)
    IN  Concat(Tup([photosPerRow \in 1..n |->
                      IF n % photosPerRow = 0
                      THEN The({ IF photosPerRow # rows /\ n > 2
                                 THEN <<createHStackLayout(ps, page, rows, photosPerRow, FALSE),
                                        createHStackLayout(ps, page, rows, photosPerRow, TRUE)>>
                                 ELSE <<createHStackLayout(ps, page, rows, photosPerRow, FALSE)>>
                                 : rows \in {n \div photosPerRow} })
                      ELSE <<>>]))

distributePhotos(totalPhotos, columns) ==
    IF totalPhotos % columns = 0 THEN <<>>
    ELSE LET baseCount == totalPhotos \div columns
             remainder == totalPhotos % columns
         IN  Tup([k \in 1..columns |-> baseCount + (IF k - 1 < remainder THEN 1 ELSE 0)])

\* the rectangles of a column layout, column after column, xPos advancing by the
\* column width
ColumnBoxes(page, cols, photosPerColumn) ==
    The({ LET \* St[col] = <<rectangles so far, xPos>>
              St[col \in 0..cols] ==
                  IF col = 0 THEN <<<< >>, R(0)>>
                  ELSE The({ <<st[1] \o Tup([row \in 1..photosPerColumn[col] |->
                                               Box(st[2], NMul(R(row - 1), cellHeight),
                                                   colWidth, cellHeight)]),
                               NAdd(st[2], colWidth)>>
                             : st \in {St[col - 1]},
                               cellHeight \in {NDiv(R(page.height), R(photosPerColumn[col]))} })
          IN  St[cols][1]
          : colWidth \in {NDiv(R(page.width), R(cols))} })

createVStackLayout(ps, page, cols, photosPerColumn, optimizeOrientation) ==
    [type |-> "vstack", columns |-> cols, photosPerColumn |-> photosPerColumn,
     variableHeights |-> TRUE,
     cells |-> PlaceCells(ps, ColumnBoxes(page, cols, photosPerColumn), optimizeOrientation, TRUE)]

\* Math.min(photos.length - 1, 4)
MaxColumns(n) == IF n - 1 < 4 THEN n - 1 ELSE 4

generateVStackLayouts(ps, page) ==
    LET n == Len(ps)
    IN  IF n > 2
        THEN Concat(Tup([k \in 1..(MaxColumns(n) - 1) |->
                           The({ IF n % cols = 0 THEN <<>>
                                 ELSE The({ IF Len(photosPerColumn) > 0
                                            THEN <<createVStackLayout(ps, page, cols, photosPerColumn, FALSE),
                                                   createVStackLayout(ps, page, cols, photosPerColumn, TRUE)>>
                                            ELSE <<>>
                                            : photosPerColumn \in {distributePhotos(n, cols)} })
                                 : cols \in {k + 1} })]))
        ELSE <<>>

\* the y of row rowIndex (from 0) of a mixed-row layout: rowIndex * rowHeight in the
\* sequential branch, the running sum y += rowHeight in the optimizing branch
RECURSIVE RowTop(_, _, _)
RowTop(rowHeight, rowIndex, optimizeOrientation) ==
    IF ~optimizeOrientation THEN NMul(R(rowIndex), rowHeight)
    ELSE IF rowIndex = 0 THEN R(0)
    ELSE NAdd(RowTop(rowHeight, rowIndex - 1, optimizeOrientation), rowHeight)

\* the rectangles of a mixed-row layout, row after row; every row has the same height
RowBoxes(page, rowDistribution, optimizeOrientation) ==
    The({ Concat(Tup([rowIndex \in 1..Len(rowDistribution) |->
                        The({ Tup([c \in 1..rowDistribution[rowIndex] |->
                                     Box(NMul(R(c - 1), cellWidth), y, cellWidth, rowHeight)])
                              : cellWidth \in {NDiv(R(page.width), R(rowDistribution[rowIndex]))},
                                y \in {RowTop(rowHeight, rowIndex - 1, optimizeOrientation)} })]))
          : rowHeight \in {NDiv(R(page.height), R(Len(rowDistribution)))} })

createMixedRowLayout(ps, page, rowDistribution, optimizeOrientation) ==
    [type |-> "hstack", rows |-> Len(rowDistribution), rowDistribution |-> rowDistribution,
     mixedRows |-> TRUE,
     cells |-> PlaceCells(ps, RowBoxes(page, rowDistribution, optimizeOrientation),
                         optimizeOrientation, FALSE)]

\* faulty variant of MixedRowDistributions: only the two-row distribution with the
\* fuller row on top (C14's formula must notice)
FullerRowOnTopOnly(n) == IF n % 2 = 1 THEN << <<n - n \div 2, n \div 2>> >> ELSE <<>>

\* the row distributions generateMixedRowLayouts tries for n photos, in order
MixedRowDistributions(n) ==
    IF n = 5 THEN << <<2, 3>>, <<3, 2>>, <<1, 4>>, <<4, 1>>, <<1, 2, 2>>, <<2, 1, 2>>, <<2, 2, 1>> >>
    ELSE IF n = 7 THEN << <<3, 4>>, <<4, 3>>, <<2, 3, 2>> >>
    ELSE IF n % 2 = 1
    THEN LET mid == n \div 2
             third == n \div 3
             remainder == n % 3
         IN  << <<mid, mid + 1>>, <<mid + 1, mid>> >>
             \o (IF n >= 9
                 THEN (IF remainder = 0 THEN << <<third, third, third>> >>
                       ELSE IF remainder = 1 THEN << <<third, third + 1, third>> >>
                       ELSE << <<third + 1, third, third + 1>> >>)
                 ELSE <<>>)
    ELSE <<>>

\* every distribution yields a sequential layout followed by an optimized one
generateMixedRowLayouts(ps, page) ==
    The({ Tup([k \in 1..(2 * Len(dists)) |->
                 createMixedRowLayout(ps, page, dists[(k + 1) \div 2], k % 2 = 0)])
          : dists \in {MixedRowDistributions(Len(ps))} })

NamedLayout(type, name, cells) == [type |-> type, name |-> name, cells |-> cells]

\* photos.slice(from - 1, to) with 1-based bounds
Slice(s, from, to) == Tup([k \in 1..(to - from + 1) |-> s[from + k - 1]])

leftDominant(ps, page) ==
    The({ NamedLayout("nested", "left-dominant",
              <<Cell(ps[1], R(0), R(0), mainPhotoWidth, mainPhotoHeight)>>
              \o Tup([k \in 1..Len(sidePhotos) |->
                        Cell(sidePhotos[k], mainPhotoWidth, NMul(R(k - 1), sidePhotoHeight),
                             sideColumnWidth, sidePhotoHeight)]))
          : mainPhotoWidth \in {NMul(R(page.width), Frac(2, 3))},
            sideColumnWidth \in {NMul(R(page.width), Frac(1, 3))},
            mainPhotoHeight \in {R(page.height)},
            sidePhotos \in {Slice(ps, 2, Len(ps))},
            sidePhotoHeight \in {NDiv(R(page.height), R(Len(ps) - 1))} })

topDominant(ps, page) ==
    The({ NamedLayout("nested", "top-dominant",
              <<Cell(ps[1], R(0), R(0), R(page.width), NDiv(R(page.height), R(2)))>>
              \o Tup([k \in 1..Len(bottomPhotos) |->
                        Cell(bottomPhotos[k], NMul(R(k - 1), bottomPhotoWidth),
                             NDiv(R(page.height), R(2)),
                             bottomPhotoWidth, NDiv(R(page.height), R(2)))]))
          : bottomPhotos \in {Slice(ps, 2, Len(ps))},
            bottomPhotoWidth \in {NDiv(R(page.width), R(Len(ps) - 1))} })

rightDominant(ps, page) ==
    The({ NamedLayout("nested", "right-dominant",
              Tup([k \in 1..Len(sidePhotos) |->
                     Cell(sidePhotos[k], R(0), NMul(R(k - 1), sidePhotoHeight),
                          sideColumnWidth, sidePhotoHeight)])
              \o <<Cell(ps[Len(ps)], sideColumnWidth, R(0), mainPhotoWidth, R(page.height))>>)
          : sideColumnWidth \in {NMul(R(page.width), Frac(1, 3))},
            mainPhotoWidth \in {NMul(R(page.width), Frac(2, 3))},
            sidePhotos \in {Slice(ps, 1, Len(ps) - 1)},
            sidePhotoHeight \in {NDiv(R(page.height), R(Len(ps) - 1))} })

bottomDominant(ps, page) ==
    The({ NamedLayout("nested", "bottom-dominant",
              Tup([k \in 1..Len(topPhotos) |->
                     Cell(topPhotos[k], NMul(R(k - 1), topPhotoWidth), R(0),
                          topPhotoWidth, NDiv(R(page.height), R(2)))])
              \o <<Cell(ps[Len(ps)], R(0), NDiv(R(page.height), R(2)),
                        R(page.width), NDiv(R(page.height), R(2)))>>)
          : topPhotos \in {Slice(ps, 1, Len(ps) - 1)},
            topPhotoWidth \in {NDiv(R(page.width), R(Len(ps) - 1))} })

\* four small squares in the corners and one large square, all sized from the page
\* width alone
centerDominant(ps, page) ==
    The({ The({ The({ NamedLayout("nested", "center-dominant",
                          << Cell(ps[1], R(0), R(0), smallSize, smallSize),
                             Cell(ps[2], NSub(R(page.width), smallSize), R(0), smallSize, smallSize),
                             Cell(ps[3], center, center, largeSize, largeSize),
                             Cell(ps[4], R(0), NSub(R(page.height), smallSize), smallSize, smallSize),
                             Cell(ps[5], NSub(R(page.width), smallSize),
                                  NSub(R(page.height), smallSize), smallSize, smallSize) >>)
                      : center \in {NSub(NDiv(R(page.width), R(2)), NDiv(largeSize, R(2)))} })
                : largeSize \in {NMul(smallSize, R(2))} })
          : smallSize \in {NDiv(R(page.width), R(3))} })

splitGrid(ps, page) ==
    The({ The({ NamedLayout("nested", "split-grid",
                    << Cell(ps[1], R(0), R(0), smallGridSize, smallGridSize),
                       Cell(ps[2], smallGridSize, R(0), smallGridSize, smallGridSize),
                       Cell(ps[3], R(0), smallGridSize, smallGridSize, smallGridSize),
                       Cell(ps[4], smallGridSize, smallGridSize, smallGridSize, smallGridSize),
                       Cell(ps[5], gridSize, R(0), gridSize, R(page.height)) >>)
                : smallGridSize \in {NDiv(gridSize, R(2))} })
          : gridSize \in {NDiv(R(page.width), R(2))} })

generateNestedLayouts(ps, page) ==
    IF Len(ps) < 3 THEN <<>>
    ELSE <<leftDominant(ps, page), topDominant(ps, page),
           rightDominant(ps, page), bottomDominant(ps, page)>>
         \o (IF Len(ps) = 5 THEN <<centerDominant(ps, page), splitGrid(ps, page)>> ELSE <<>>)

\* createOptimizedLayout of the strict generator: the rectangles of cs, photos
\* reassigned greedily, cells sorted by y then x
createOptimizedLayoutS(ps, cs, name) ==
    NamedLayout("composite", name,
        The({ PlaceCells(ps, Tup([k \in 1..Len(cells) |->
                                    Box(cells[k].x, cells[k].y, cells[k].width, cells[k].height)]),
                         TRUE, FALSE)
              : cells \in {cs} }))

(***************************************************************************)
(* Hard-coded layouts.  The tables hold, for every cell, the expressions   *)
(* the program evaluates for its coordinates, with the program's           *)
(* intermediate constants (topRowHeight, cellWidth, ...) substituted and   *)
(* its loops unrolled.                                                     *)
(***************************************************************************)
\* a cell of a hard-coded layout: photos[k] in the rectangle (x, y, w, h)
TCell(k, x, y, w, h) == [photoIndex |-> k, x |-> x, y |-> y, width |-> w, height |-> h]

\* the cell of a photo with the position and size v
CellAt(photo, v) == Cell(photo, v[1], v[2], v[3], v[4])

\* the cell object of one table cell on a page
FromCell(ps, page, c) == CellAt(ps[c.photoIndex + 1], Values(Rectangle(c), page))

\* the layout object built from one table entry
FromTemplate(ps, page, t) ==
    NamedLayout("composite", t.name,
        Tup([i \in 1..Len(t.cells) |-> FromCell(ps, page, t.cells[i])]))

FromTemplates(ps, page, ts) ==
    Tup([i \in 1..Len(ts) |-> FromTemplate(ps, page, ts[i])])
\* the hard-coded layouts for 5 photos, in the order they are pushed, on a
\* page whose width and height stand as PageWidth and PageHeight
CompositeTemplates5 ==
    << \* lines 476-539
       [name |-> "mixed-stack-1",
        cells |-> << TCell(0, Lit(0), Lit(0), Over(PageWidth, Lit(2)), Times(PageHeight, Dec(5, 10))),
                    TCell(1, Over(PageWidth, Lit(2)), Lit(0), Over(PageWidth, Lit(2)), Times(PageHeight, Dec(5, 10))),
                    TCell(2, Lit(0), Times(PageHeight, Dec(5, 10)), Over(PageWidth, Lit(2)), Times(PageHeight, Dec(5, 10))),
                    TCell(3,
                          Over(PageWidth, Lit(2)),
                          Times(PageHeight, Dec(5, 10)),
                          Over(PageWidth, Lit(2)),
                          Over(Times(PageHeight, Dec(5, 10)), Lit(2))),
                    TCell(4,
                          Over(PageWidth, Lit(2)),
                          Plus(Times(PageHeight, Dec(5, 10)), Over(Times(PageHeight, Dec(5, 10)), Lit(2))),
                          Over(PageWidth, Lit(2)),
                          Over(Times(PageHeight, Dec(5, 10)), Lit(2))) >>],
       \* lines 540-586
       [name |-> "mixed-stack-2",
        cells |-> << TCell(0, Lit(0), Lit(0), Times(PageWidth, Dec(5, 10)), Over(PageHeight, Lit(2))),
                    TCell(1, Lit(0), Over(PageHeight, Lit(2)), Times(PageWidth, Dec(5, 10)), Over(PageHeight, Lit(2))),
                    TCell(2,
                          Times(PageWidth, Dec(5, 10)),
                          Times(Lit(0), Over(PageHeight, Lit(3))),
                          Times(PageWidth, Dec(5, 10)),
                          Over(PageHeight, Lit(3))),
                    TCell(3,
                          Times(PageWidth, Dec(5, 10)),
                          Times(Lit(1), Over(PageHeight, Lit(3))),
                          Times(PageWidth, Dec(5, 10)),
                          Over(PageHeight, Lit(3))),
                    TCell(4,
                          Times(PageWidth, Dec(5, 10)),
                          Times(Lit(2), Over(PageHeight, Lit(3))),
                          Times(PageWidth, Dec(5, 10)),
                          Over(PageHeight, Lit(3))) >>],
       \* lines 587-631
       [name |-> "mixed-stack-3",
        cells |-> << TCell(0, Lit(0), Lit(0), PageWidth, Times(PageHeight, Dec(3, 10))),
                    TCell(1,
                          Times(Lit(0), Over(PageWidth, Lit(3))),
                          Times(PageHeight, Dec(3, 10)),
                          Over(PageWidth, Lit(3)),
                          Times(PageHeight, Dec(4, 10))),
                    TCell(2,
                          Times(Lit(1), Over(PageWidth, Lit(3))),
                          Times(PageHeight, Dec(3, 10)),
                          Over(PageWidth, Lit(3)),
                          Times(PageHeight, Dec(4, 10))),
                    TCell(3,
                          Times(Lit(2), Over(PageWidth, Lit(3))),
                          Times(PageHeight, Dec(3, 10)),
                          Over(PageWidth, Lit(3)),
                          Times(PageHeight, Dec(4, 10))),
                    TCell(4,
                          Lit(0),
                          Plus(Times(PageHeight, Dec(3, 10)), Times(PageHeight, Dec(4, 10))),
                          PageWidth,
                          Times(PageHeight, Dec(3, 10))) >>] >>

\* the hard-coded layouts for 6 photos, in the order they are pushed, on a
\* page whose width and height stand as PageWidth and PageHeight
CompositeTemplates6 ==
    << \* lines 633-658
       [name |-> "six-grid-3x2",
        cells |-> << TCell(0,
                          Times(Lit(0), Over(PageWidth, Lit(3))),
                          Times(Lit(0), Over(PageHeight, Lit(2))),
                          Over(PageWidth, Lit(3)),
                          Over(PageHeight, Lit(2))),
                    TCell(1,
                          Times(Lit(1), Over(PageWidth, Lit(3))),
                          Times(Lit(0), Over(PageHeight, Lit(2))),
                          Over(PageWidth, Lit(3)),
                          Over(PageHeight, Lit(2))),
                    TCell(2,
                          Times(Lit(2), Over(PageWidth, Lit(3))),
                          Times(Lit(0), Over(PageHeight, Lit(2))),
                          Over(PageWidth, Lit(3)),
                          Over(PageHeight, Lit(2))),
                    TCell(3,
                          Times(Lit(0), Over(PageWidth, Lit(3))),
                          Times(Lit(1), Over(PageHeight, Lit(2))),
                          Over(PageWidth, Lit(3)),
                          Over(PageHeight, Lit(2))),
                    TCell(4,
                          Times(Lit(1), Over(PageWidth, Lit(3))),
                          Times(Lit(1), Over(PageHeight, Lit(2))),
                          Over(PageWidth, Lit(3)),
                          Over(PageHeight, Lit(2))),
                    TCell(5,
                          Times(Lit(2), Over(PageWidth, Lit(3))),
                          Times(Lit(1), Over(PageHeight, Lit(2))),
                          Over(PageWidth, Lit(3)),
                          Over(PageHeight, Lit(2))) >>],
       \* lines 659-711
       [name |-> "six-mixed-left-vertical",
        cells |-> << TCell(0, Lit(0), Lit(0), Over(PageWidth, Lit(3)), Over(PageHeight, Lit(2))),
                    TCell(1,
                          Over(PageWidth, Lit(3)),
                          Lit(0),
                          Over(Over(Times(PageWidth, Lit(2)), Lit(3)), Lit(2)),
                          Over(PageHeight, Lit(2))),
                    TCell(2,
                          Plus(Over(PageWidth, Lit(3)), Over(Over(Times(PageWidth, Lit(2)), Lit(3)), Lit(2))),
                          Lit(0),
                          Over(Over(Times(PageWidth, Lit(2)), Lit(3)), Lit(2)),
                          Over(PageHeight, Lit(2))),
                    TCell(3,
                          Times(Lit(0), Over(PageWidth, Lit(3))),
                          Over(PageHeight, Lit(2)),
                          Over(PageWidth, Lit(3)),
                          Over(PageHeight, Lit(2))),
                    TCell(4,
                          Times(Lit(1), Over(PageWidth, Lit(3))),
                          Over(PageHeight, Lit(2)),
                          Over(PageWidth, Lit(3)),
                          Over(PageHeight, Lit(2))),
                    TCell(5,
                          Times(Lit(2), Over(PageWidth, Lit(3))),
                          Over(PageHeight, Lit(2)),
                          Over(PageWidth, Lit(3)),
                          Over(PageHeight, Lit(2))) >>],
       \* lines 712-759
       [name |-> "six-mixed-right-vertical",
        cells |-> << TCell(0, Lit(0), Lit(0), Over(Over(Times(PageWidth, Lit(2)), Lit(3)), Lit(2)), Over(PageHeight, Lit(2))),
                    TCell(1,
                          Over(Over(Times(PageWidth, Lit(2)), Lit(3)), Lit(2)),
                          Lit(0),
                          Over(Over(Times(PageWidth, Lit(2)), Lit(3)), Lit(2)),
                          Over(PageHeight, Lit(2))),
                    TCell(2, Over(Times(PageWidth, Lit(2)), Lit(3)), Lit(0), Over(PageWidth, Lit(3)), Over(PageHeight, Lit(2))),
                    TCell(3,
                          Times(Lit(0), Over(PageWidth, Lit(3))),
                          Over(PageHeight, Lit(2)),
                          Over(PageWidth, Lit(3)),
                          Over(PageHeight, Lit(2))),
                    TCell(4,
                          Times(Lit(1), Over(PageWidth, Lit(3))),
                          Over(PageHeight, Lit(2)),
                          Over(PageWidth, Lit(3)),
                          Over(PageHeight, Lit(2))),
                    TCell(5,
                          Times(Lit(2), Over(PageWidth, Lit(3))),
                          Over(PageHeight, Lit(2)),
                          Over(PageWidth, Lit(3)),
                          Over(PageHeight, Lit(2))) >>],
       \* lines 760-808
       [name |-> "six-mixed-bottom-left-vertical",
        cells |-> << TCell(0, Times(Lit(0), Over(PageWidth, Lit(3))), Lit(0), Over(PageWidth, Lit(3)), Over(PageHeight, Lit(2))),
                    TCell(1, Times(Lit(1), Over(PageWidth, Lit(3))), Lit(0), Over(PageWidth, Lit(3)), Over(PageHeight, Lit(2))),
                    TCell(2, Times(Lit(2), Over(PageWidth, Lit(3))), Lit(0), Over(PageWidth, Lit(3)), Over(PageHeight, Lit(2))),
                    TCell(3, Lit(0), Over(PageHeight, Lit(2)), Over(PageWidth, Lit(3)), Over(PageHeight, Lit(2))),
                    TCell(4,
                          Over(PageWidth, Lit(3)),
                          Over(PageHeight, Lit(2)),
                          Over(Over(Times(PageWidth, Lit(2)), Lit(3)), Lit(2)),
                          Over(PageHeight, Lit(2))),
                    TCell(5,
                          Plus(Over(PageWidth, Lit(3)), Over(Over(Times(PageWidth, Lit(2)), Lit(3)), Lit(2))),
                          Over(PageHeight, Lit(2)),
                          Over(Over(Times(PageWidth, Lit(2)), Lit(3)), Lit(2)),
                          Over(PageHeight, Lit(2))) >>],
       \* lines 809-858
       [name |-> "six-mixed-bottom-right-vertical",
        cells |-> << TCell(0, Times(Lit(0), Over(PageWidth, Lit(3))), Lit(0), Over(PageWidth, Lit(3)), Over(PageHeight, Lit(2))),
                    TCell(1, Times(Lit(1), Over(PageWidth, Lit(3))), Lit(0), Over(PageWidth, Lit(3)), Over(PageHeight, Lit(2))),
                    TCell(2, Times(Lit(2), Over(PageWidth, Lit(3))), Lit(0), Over(PageWidth, Lit(3)), Over(PageHeight, Lit(2))),
                    TCell(3,
                          Lit(0),
                          Over(PageHeight, Lit(2)),
                          Over(Over(Times(PageWidth, Lit(2)), Lit(3)), Lit(2)),
                          Over(PageHeight, Lit(2))),
                    TCell(4,
                          Over(Over(Times(PageWidth, Lit(2)), Lit(3)), Lit(2)),
                          Over(PageHeight, Lit(2)),
                          Over(Over(Times(PageWidth, Lit(2)), Lit(3)), Lit(2)),
                          Over(PageHeight, Lit(2))),
                    TCell(5,
                          Over(Times(PageWidth, Lit(2)), Lit(3)),
                          Over(PageHeight, Lit(2)),
                          Over(PageWidth, Lit(3)),
                          Over(PageHeight, Lit(2))) >>],
       \* lines 859-920
       [name |-> "six-mixed-left-one-right-two-both-rows",
        cells |-> << TCell(0, Lit(0), Lit(0), Over(PageWidth, Lit(2)), Over(PageHeight, Lit(3))),
                    TCell(1, Over(PageWidth, Lit(2)), Lit(0), Over(PageWidth, Lit(2)), Over(PageHeight, Lit(6))),
                    TCell(2, Over(PageWidth, Lit(2)), Over(PageHeight, Lit(6)), Over(PageWidth, Lit(2)), Over(PageHeight, Lit(6))),
                    TCell(3, Lit(0), Over(PageHeight, Lit(3)), Over(PageWidth, Lit(2)), Over(PageHeight, Lit(3))),
                    TCell(4, Over(PageWidth, Lit(2)), Over(PageHeight, Lit(3)), Over(PageWidth, Lit(2)), Over(PageHeight, Lit(6))),
                    TCell(5,
                          Over(PageWidth, Lit(2)),
                          Plus(Over(PageHeight, Lit(3)), Over(PageHeight, Lit(6))),
                          Over(PageWidth, Lit(2)),
                          Over(PageHeight, Lit(6))) >>],
       \* lines 921-986
       [name |-> "six-mixed-right-one-left-two-both-rows",
        cells |-> << TCell(0, Lit(0), Lit(0), Over(Over(Times(PageWidth, Lit(2)), Lit(3)), Lit(2)), Over(PageHeight, Lit(3))),
                    TCell(1,
                          Over(Over(Times(PageWidth, Lit(2)), Lit(3)), Lit(2)),
                          Lit(0),
                          Over(Over(Times(PageWidth, Lit(2)), Lit(3)), Lit(2)),
                          Over(PageHeight, Lit(6))),
                    TCell(2, Over(Times(PageWidth, Lit(2)), Lit(3)), Lit(0), Over(PageWidth, Lit(3)), Over(PageHeight, Lit(3))),
                    TCell(3,
                          Lit(0),
                          Over(PageHeight, Lit(3)),
                          Over(Over(Times(PageWidth, Lit(2)), Lit(3)), Lit(2)),
                          Over(PageHeight, Lit(6))),
                    TCell(4,
                          Over(Over(Times(PageWidth, Lit(2)), Lit(3)), Lit(2)),
                          Over(PageHeight, Lit(3)),
                          Over(Over(Times(PageWidth, Lit(2)), Lit(3)), Lit(2)),
                          Over(PageHeight, Lit(6))),
                    TCell(5,
                          Over(Times(PageWidth, Lit(2)), Lit(3)),
                          Over(PageHeight, Lit(3)),
                          Over(PageWidth, Lit(3)),
                          Over(PageHeight, Lit(3))) >>],
       \* lines 987-1041
       [name |-> "six-mixed-top-uniform-bottom-split",
        cells |-> << TCell(0, Times(Lit(0), Over(PageWidth, Lit(3))), Lit(0), Over(PageWidth, Lit(3)), Over(PageHeight, Lit(2))),
                    TCell(1, Times(Lit(1), Over(PageWidth, Lit(3))), Lit(0), Over(PageWidth, Lit(3)), Over(PageHeight, Lit(2))),
                    TCell(2, Times(Lit(2), Over(PageWidth, Lit(3))), Lit(0), Over(PageWidth, Lit(3)), Over(PageHeight, Lit(2))),
                    TCell(3, Lit(0), Over(PageHeight, Lit(2)), Over(PageWidth, Lit(2)), Over(PageHeight, Lit(2))),
                    TCell(4,
                          Over(PageWidth, Lit(2)),
                          Over(PageHeight, Lit(2)),
                          Over(PageWidth, Lit(2)),
                          Over(Over(PageHeight, Lit(2)), Lit(2))),
                    TCell(5,
                          Over(PageWidth, Lit(2)),
                          Plus(Over(PageHeight, Lit(2)), Over(Over(PageHeight, Lit(2)), Lit(2))),
                          Over(PageWidth, Lit(2)),
                          Over(Over(PageHeight, Lit(2)), Lit(2))) >>],
       \* lines 1042-1096
       [name |-> "six-mixed-top-uniform-bottom-right-single",
        cells |-> << TCell(0, Times(Lit(0), Over(PageWidth, Lit(3))), Lit(0), Over(PageWidth, Lit(3)), Over(PageHeight, Lit(2))),
                    TCell(1, Times(Lit(1), Over(PageWidth, Lit(3))), Lit(0), Over(PageWidth, Lit(3)), Over(PageHeight, Lit(2))),
                    TCell(2, Times(Lit(2), Over(PageWidth, Lit(3))), Lit(0), Over(PageWidth, Lit(3)), Over(PageHeight, Lit(2))),
                    TCell(5, Over(PageWidth, Lit(2)), Over(PageHeight, Lit(2)), Over(PageWidth, Lit(2)), Over(PageHeight, Lit(2))),
                    TCell(3, Lit(0), Over(PageHeight, Lit(2)), Over(PageWidth, Lit(2)), Over(Over(PageHeight, Lit(2)), Lit(2))),
                    TCell(4,
                          Lit(0),
                          Plus(Over(PageHeight, Lit(2)), Over(Over(PageHeight, Lit(2)), Lit(2))),
                          Over(PageWidth, Lit(2)),
                          Over(Over(PageHeight, Lit(2)), Lit(2))) >>],
       \* lines 1097-1152
       [name |-> "six-mixed-top-left-single-bottom-uniform",
        cells |-> << TCell(0, Lit(0), Lit(0), Over(PageWidth, Lit(2)), Over(PageHeight, Lit(2))),
                    TCell(1, Over(PageWidth, Lit(2)), Lit(0), Over(PageWidth, Lit(2)), Over(Over(PageHeight, Lit(2)), Lit(2))),
                    TCell(2,
                          Over(PageWidth, Lit(2)),
                          Over(Over(PageHeight, Lit(2)), Lit(2)),
                          Over(PageWidth, Lit(2)),
                          Over(Over(PageHeight, Lit(2)), Lit(2))),
                    TCell(3,
                          Times(Lit(0), Over(PageWidth, Lit(3))),
                          Over(PageHeight, Lit(2)),
                          Over(PageWidth, Lit(3)),
                          Over(PageHeight, Lit(2))),
                    TCell(4,
                          Times(Lit(1), Over(PageWidth, Lit(3))),
                          Over(PageHeight, Lit(2)),
                          Over(PageWidth, Lit(3)),
                          Over(PageHeight, Lit(2))),
                    TCell(5,
                          Times(Lit(2), Over(PageWidth, Lit(3))),
                          Over(PageHeight, Lit(2)),
                          Over(PageWidth, Lit(3)),
                          Over(PageHeight, Lit(2))) >>],
       \* lines 1153-1222
       [name |-> "six-mixed-top-right-single-bottom-uniform",
        cells |-> << TCell(3, Over(PageWidth, Lit(2)), Lit(0), Over(PageWidth, Lit(2)), Over(PageHeight, Lit(2))),
                    TCell(0, Lit(0), Lit(0), Over(PageWidth, Lit(2)), Over(Over(PageHeight, Lit(2)), Lit(2))),
                    TCell(1,
                          Lit(0),
                          Over(Over(PageHeight, Lit(2)), Lit(2)),
                          Over(PageWidth, Lit(2)),
                          Over(Over(PageHeight, Lit(2)), Lit(2))),
                    TCell(2, Lit(0), Over(PageHeight, Lit(2)), Over(PageWidth, Lit(3)), Over(PageHeight, Lit(2))),
                    TCell(4, Over(PageWidth, Lit(3)), Over(PageHeight, Lit(2)), Over(PageWidth, Lit(3)), Over(PageHeight, Lit(2))),
                    TCell(5,
                          Times(Over(PageWidth, Lit(3)), Lit(2)),
                          Over(PageHeight, Lit(2)),
                          Over(PageWidth, Lit(3)),
                          Over(PageHeight, Lit(2))) >>],
       \* lines 1223-1288
       [name |-> "six-mixed-left-one-right-two-both-rows",
        cells |-> << TCell(0, Lit(0), Lit(0), Over(PageWidth, Lit(2)), Over(PageHeight, Lit(2))),
                    TCell(1, Over(PageWidth, Lit(2)), Lit(0), Over(PageWidth, Lit(2)), Over(PageHeight, Lit(4))),
                    TCell(2, Over(PageWidth, Lit(2)), Over(PageHeight, Lit(4)), Over(PageWidth, Lit(2)), Over(PageHeight, Lit(4))),
                    TCell(3, Lit(0), Over(PageHeight, Lit(2)), Over(PageWidth, Lit(2)), Over(PageHeight, Lit(2))),
                    TCell(4, Over(PageWidth, Lit(2)), Over(PageHeight, Lit(2)), Over(PageWidth, Lit(2)), Over(PageHeight, Lit(4))),
                    TCell(5,
                          Over(PageWidth, Lit(2)),
                          Plus(Over(PageHeight, Lit(2)), Over(PageHeight, Lit(4))),
                          Over(PageWidth, Lit(2)),
                          Over(PageHeight, Lit(4))) >>],
       \* lines 1289-1354
       [name |-> "six-mixed-left-one-right-two-first-row",
        cells |-> << TCell(0, Lit(0), Lit(0), Over(PageWidth, Lit(2)), Over(PageHeight, Lit(2))),
                    TCell(1, Over(PageWidth, Lit(2)), Lit(0), Over(PageWidth, Lit(2)), Over(PageHeight, Lit(4))),
                    TCell(2, Over(PageWidth, Lit(2)), Over(PageHeight, Lit(4)), Over(PageWidth, Lit(2)), Over(PageHeight, Lit(4))),
                    TCell(3, Lit(0), Over(PageHeight, Lit(2)), Over(PageWidth, Lit(2)), Over(PageHeight, Lit(4))),
                    TCell(4,
                          Lit(0),
                          Plus(Over(PageHeight, Lit(2)), Over(PageHeight, Lit(4))),
                          Over(PageWidth, Lit(2)),
                          Over(PageHeight, Lit(4))),
                    TCell(5, Over(PageWidth, Lit(2)), Over(PageHeight, Lit(2)), Over(PageWidth, Lit(2)), Over(PageHeight, Lit(2))) >>],
       \* lines 1355-1420
       [name |-> "six-mixed-left-two-right-one-first-row",
        cells |-> << TCell(0, Lit(0), Lit(0), Over(PageWidth, Lit(2)), Over(PageHeight, Lit(4))),
                    TCell(1, Lit(0), Over(PageHeight, Lit(4)), Over(PageWidth, Lit(2)), Over(PageHeight, Lit(4))),
                    TCell(2, Over(PageWidth, Lit(2)), Lit(0), Over(PageWidth, Lit(2)), Over(PageHeight, Lit(2))),
                    TCell(3, Lit(0), Over(PageHeight, Lit(2)), Over(PageWidth, Lit(2)), Over(PageHeight, Lit(2))),
                    TCell(4, Over(PageWidth, Lit(2)), Over(PageHeight, Lit(2)), Over(PageWidth, Lit(2)), Over(PageHeight, Lit(4))),
                    TCell(5,
                          Over(PageWidth, Lit(2)),
                          Plus(Over(PageHeight, Lit(2)), Over(PageHeight, Lit(4))),
                          Over(PageWidth, Lit(2)),
                          Over(PageHeight, Lit(4))) >>],
       \* lines 1421-1483
       [name |-> "six-mixed-left-two-right-one-both-rows",
        cells |-> << TCell(0, Lit(0), Lit(0), Over(PageWidth, Lit(2)), Over(PageHeight, Lit(4))),
                    TCell(1, Lit(0), Over(PageHeight, Lit(4)), Over(PageWidth, Lit(2)), Over(PageHeight, Lit(4))),
                    TCell(2, Over(PageWidth, Lit(2)), Lit(0), Over(PageWidth, Lit(2)), Over(PageHeight, Lit(2))),
                    TCell(3, Lit(0), Over(PageHeight, Lit(2)), Over(PageWidth, Lit(2)), Over(PageHeight, Lit(4))),
                    TCell(4,
                          Lit(0),
                          Plus(Over(PageHeight, Lit(2)), Over(PageHeight, Lit(4))),
                          Over(PageWidth, Lit(2)),
                          Over(PageHeight, Lit(4))),
                    TCell(5, Over(PageWidth, Lit(2)), Over(PageHeight, Lit(2)), Over(PageWidth, Lit(2)), Over(PageHeight, Lit(2))) >>] >>

\* the hard-coded layouts for 7 photos, in the order they are pushed, on a
\* page whose width and height stand as PageWidth and PageHeight
ComplexTemplates7 ==
    << \* lines 1509-1577
       [name |-> "seven-mixed-three-three-one",
        cells |-> << TCell(0, Lit(0), Lit(0), Over(PageWidth, Lit(3)), Over(PageHeight, Lit(3))),
                    TCell(1, Over(PageWidth, Lit(3)), Lit(0), Over(PageWidth, Lit(3)), Over(PageHeight, Lit(3))),
                    TCell(2, Over(Times(PageWidth, Lit(2)), Lit(3)), Lit(0), Over(PageWidth, Lit(3)), Over(PageHeight, Lit(3))),
                    TCell(3, Lit(0), Over(PageHeight, Lit(3)), Over(PageWidth, Lit(3)), Over(PageHeight, Lit(3))),
                    TCell(4, Over(PageWidth, Lit(3)), Over(PageHeight, Lit(3)), Over(PageWidth, Lit(3)), Over(PageHeight, Lit(3))),
                    TCell(5,
                          Over(Times(PageWidth, Lit(2)), Lit(3)),
                          Over(PageHeight, Lit(3)),
                          Over(PageWidth, Lit(3)),
                          Over(PageHeight, Lit(3))),
                    TCell(6, Lit(0), Over(Times(PageHeight, Lit(2)), Lit(3)), PageWidth, Over(PageHeight, Lit(3))) >>],
       \* lines 1578-1647
       [name |-> "seven-mixed-left-one-right-two-both-rows",
        cells |-> << TCell(0, Lit(0), Lit(0), Over(PageWidth, Lit(2)), Over(PageHeight, Lit(3))),
                    TCell(1, Over(PageWidth, Lit(2)), Lit(0), Over(PageWidth, Lit(2)), Over(PageHeight, Lit(6))),
                    TCell(2, Over(PageWidth, Lit(2)), Over(PageHeight, Lit(6)), Over(PageWidth, Lit(2)), Over(PageHeight, Lit(6))),
                    TCell(3, Lit(0), Over(PageHeight, Lit(3)), Over(PageWidth, Lit(2)), Over(PageHeight, Lit(3))),
                    TCell(4, Over(PageWidth, Lit(2)), Over(PageHeight, Lit(3)), Over(PageWidth, Lit(2)), Over(PageHeight, Lit(6))),
                    TCell(5,
                          Over(PageWidth, Lit(2)),
                          Plus(Over(PageHeight, Lit(3)), Over(PageHeight, Lit(6))),
                          Over(PageWidth, Lit(2)),
                          Over(PageHeight, Lit(6))),
                    TCell(6, Lit(0), Over(Times(PageHeight, Lit(2)), Lit(3)), PageWidth, Over(PageHeight, Lit(3))) >>],
       \* lines 1648-1718
       [name |-> "seven-mixed-two-two-two-one",
        cells |-> << TCell(0, Lit(0), Lit(0), Over(PageWidth, Lit(2)), Over(PageHeight, Lit(4))),
                    TCell(1, Over(PageWidth, Lit(2)), Lit(0), Over(PageWidth, Lit(2)), Over(PageHeight, Lit(4))),
                    TCell(2, Lit(0), Over(PageHeight, Lit(4)), Over(PageWidth, Lit(2)), Over(PageHeight, Lit(4))),
                    TCell(3, Over(PageWidth, Lit(2)), Over(PageHeight, Lit(4)), Over(PageWidth, Lit(2)), Over(PageHeight, Lit(4))),
                    TCell(4, Lit(0), Over(PageHeight, Lit(2)), Over(PageWidth, Lit(2)), Over(PageHeight, Lit(4))),
                    TCell(5, Over(PageWidth, Lit(2)), Over(PageHeight, Lit(2)), Over(PageWidth, Lit(2)), Over(PageHeight, Lit(4))),
                    TCell(6, Lit(0), Over(Times(PageHeight, Lit(3)), Lit(4)), PageWidth, Over(PageHeight, Lit(4))) >>],
       \* lines 1719-1787
       [name |-> "seven-mixed-two-three-two",
        cells |-> << TCell(0, Lit(0), Lit(0), Over(PageWidth, Lit(2)), Over(PageHeight, Lit(3))),
                    TCell(1, Over(PageWidth, Lit(2)), Lit(0), Over(PageWidth, Lit(2)), Over(PageHeight, Lit(3))),
                    TCell(2, Lit(0), Over(PageHeight, Lit(3)), Over(PageWidth, Lit(3)), Over(PageHeight, Lit(3))),
                    TCell(3, Over(PageWidth, Lit(3)), Over(PageHeight, Lit(3)), Over(PageWidth, Lit(3)), Over(PageHeight, Lit(3))),
                    TCell(4,
                          Over(Times(PageWidth, Lit(2)), Lit(3)),
                          Over(PageHeight, Lit(3)),
                          Over(PageWidth, Lit(3)),
                          Over(PageHeight, Lit(3))),
                    TCell(5, Lit(0), Over(Times(PageHeight, Lit(2)), Lit(3)), Over(PageWidth, Lit(2)), Over(PageHeight, Lit(3))),
                    TCell(6,
                          Over(PageWidth, Lit(2)),
                          Over(Times(PageHeight, Lit(2)), Lit(3)),
                          Over(PageWidth, Lit(2)),
                          Over(PageHeight, Lit(3))) >>],
       \* lines 1788-1860
       [name |-> "seven-mixed-left-two-right-one-both-rows",
        cells |-> << TCell(0, Lit(0), Lit(0), Over(PageWidth, Lit(2)), Over(PageHeight, Lit(6))),
                    TCell(1, Lit(0), Over(PageHeight, Lit(6)), Over(PageWidth, Lit(2)), Over(PageHeight, Lit(6))),
                    TCell(2, Over(PageWidth, Lit(2)), Lit(0), Over(PageWidth, Lit(2)), Over(PageHeight, Lit(3))),
                    TCell(3, Lit(0), Over(PageHeight, Lit(3)), Over(PageWidth, Lit(2)), Over(PageHeight, Lit(6))),
                    TCell(4,
                          Lit(0),
                          Plus(Over(PageHeight, Lit(3)), Over(PageHeight, Lit(6))),
                          Over(PageWidth, Lit(2)),
                          Over(PageHeight, Lit(6))),
                    TCell(5, Over(PageWidth, Lit(2)), Over(PageHeight, Lit(3)), Over(PageWidth, Lit(2)), Over(PageHeight, Lit(3))),
                    TCell(6, Lit(0), Over(Times(PageHeight, Lit(2)), Lit(3)), PageWidth, Over(PageHeight, Lit(3))) >>],
       \* lines 1861-1931
       [name |-> "seven-mixed-left-one-right-two-first-row",
        cells |-> << TCell(0, Lit(0), Lit(0), Over(PageWidth, Lit(2)), Over(PageHeight, Lit(3))),
                    TCell(1, Over(PageWidth, Lit(2)), Lit(0), Over(PageWidth, Lit(2)), Over(PageHeight, Lit(6))),
                    TCell(2, Over(PageWidth, Lit(2)), Over(PageHeight, Lit(6)), Over(PageWidth, Lit(2)), Over(PageHeight, Lit(6))),
                    TCell(3, Lit(0), Over(PageHeight, Lit(3)), Over(PageWidth, Lit(2)), Over(PageHeight, Lit(6))),
                    TCell(4,
                          Lit(0),
                          Plus(Over(PageHeight, Lit(3)), Over(PageHeight, Lit(6))),
                          Over(PageWidth, Lit(2)),
                          Over(PageHeight, Lit(6))),
                    TCell(5, Over(PageWidth, Lit(2)), Over(PageHeight, Lit(3)), Over(PageWidth, Lit(2)), Over(PageHeight, Lit(3))),
                    TCell(6, Lit(0), Over(Times(PageHeight, Lit(2)), Lit(3)), PageWidth, Over(PageHeight, Lit(3))) >>],
       \* lines 1932-2002
       [name |-> "seven-mixed-left-two-right-one-first-row",
        cells |-> << TCell(0, Lit(0), Lit(0), Over(PageWidth, Lit(2)), Over(PageHeight, Lit(6))),
                    TCell(1, Lit(0), Over(PageHeight, Lit(6)), Over(PageWidth, Lit(2)), Over(PageHeight, Lit(6))),
                    TCell(2, Over(PageWidth, Lit(2)), Lit(0), Over(PageWidth, Lit(2)), Over(PageHeight, Lit(3))),
                    TCell(3, Lit(0), Over(PageHeight, Lit(3)), Over(PageWidth, Lit(2)), Over(PageHeight, Lit(3))),
                    TCell(4, Over(PageWidth, Lit(2)), Over(PageHeight, Lit(3)), Over(PageWidth, Lit(2)), Over(PageHeight, Lit(6))),
                    TCell(5,
                          Over(PageWidth, Lit(2)),
                          Plus(Over(PageHeight, Lit(3)), Over(PageHeight, Lit(6))),
                          Over(PageWidth, Lit(2)),
                          Over(PageHeight, Lit(6))),
                    TCell(6, Lit(0), Over(Times(PageHeight, Lit(2)), Lit(3)), PageWidth, Over(PageHeight, Lit(3))) >>],
       \* lines 2003-2071
       [name |-> "seven-mixed-one-three-three",
        cells |-> << TCell(0, Lit(0), Lit(0), PageWidth, Over(PageHeight, Lit(3))),
                    TCell(1, Lit(0), Over(PageHeight, Lit(3)), Over(PageWidth, Lit(3)), Over(PageHeight, Lit(3))),
                    TCell(2, Over(PageWidth, Lit(3)), Over(PageHeight, Lit(3)), Over(PageWidth, Lit(3)), Over(PageHeight, Lit(3))),
                    TCell(3,
                          Over(Times(PageWidth, Lit(2)), Lit(3)),
                          Over(PageHeight, Lit(3)),
                          Over(PageWidth, Lit(3)),
                          Over(PageHeight, Lit(3))),
                    TCell(4, Lit(0), Over(Times(PageHeight, Lit(2)), Lit(3)), Over(PageWidth, Lit(3)), Over(PageHeight, Lit(3))),
                    TCell(5,
                          Over(PageWidth, Lit(3)),
                          Over(Times(PageHeight, Lit(2)), Lit(3)),
                          Over(PageWidth, Lit(3)),
                          Over(PageHeight, Lit(3))),
                    TCell(6,
                          Over(Times(PageWidth, Lit(2)), Lit(3)),
                          Over(Times(PageHeight, Lit(2)), Lit(3)),
                          Over(PageWidth, Lit(3)),
                          Over(PageHeight, Lit(3))) >>],
       \* lines 2072-2140
       [name |-> "seven-mixed-three-three-one-centered",
        cells |-> << TCell(0, Lit(0), Lit(0), Over(PageWidth, Lit(3)), Over(PageHeight, Lit(3))),
                    TCell(1, Over(PageWidth, Lit(3)), Lit(0), Over(PageWidth, Lit(3)), Over(PageHeight, Lit(3))),
                    TCell(2, Over(Times(PageWidth, Lit(2)), Lit(3)), Lit(0), Over(PageWidth, Lit(3)), Over(PageHeight, Lit(3))),
                    TCell(3, Lit(0), Over(PageHeight, Lit(3)), Over(PageWidth, Lit(3)), Over(PageHeight, Lit(3))),
                    TCell(4, Over(PageWidth, Lit(3)), Over(PageHeight, Lit(3)), Over(PageWidth, Lit(3)), Over(PageHeight, Lit(3))),
                    TCell(5,
                          Over(Times(PageWidth, Lit(2)), Lit(3)),
                          Over(PageHeight, Lit(3)),
                          Over(PageWidth, Lit(3)),
                          Over(PageHeight, Lit(3))),
                    TCell(6,
                          Over(PageWidth, Lit(4)),
                          Over(Times(PageHeight, Lit(2)), Lit(3)),
                          Over(PageWidth, Lit(2)),
                          Over(PageHeight, Lit(3))) >>],
       \* lines 2141-2208
       [name |-> "seven-mixed-one-two-two-two",
        cells |-> << TCell(0, Lit(0), Lit(0), PageWidth, Over(PageHeight, Lit(4))),
                    TCell(1, Lit(0), Over(PageHeight, Lit(4)), Over(PageWidth, Lit(2)), Over(PageHeight, Lit(4))),
                    TCell(2, Over(PageWidth, Lit(2)), Over(PageHeight, Lit(4)), Over(PageWidth, Lit(2)), Over(PageHeight, Lit(4))),
                    TCell(3, Lit(0), Over(PageHeight, Lit(2)), Over(PageWidth, Lit(2)), Over(PageHeight, Lit(4))),
                    TCell(4, Over(PageWidth, Lit(2)), Over(PageHeight, Lit(2)), Over(PageWidth, Lit(2)), Over(PageHeight, Lit(4))),
                    TCell(5, Lit(0), Over(Times(PageHeight, Lit(3)), Lit(4)), Over(PageWidth, Lit(2)), Over(PageHeight, Lit(4))),
                    TCell(6,
                          Over(PageWidth, Lit(2)),
                          Over(Times(PageHeight, Lit(3)), Lit(4)),
                          Over(PageWidth, Lit(2)),
                          Over(PageHeight, Lit(4))) >>] >>

\* the hard-coded layouts for 8 photos, in the order they are pushed, on a
\* page whose width and height stand as PageWidth and PageHeight
ComplexTemplates8 ==
    << \* lines 2219-2296
       [name |-> "eight-mixed-three-three-two",
        cells |-> << TCell(0, Lit(0), Lit(0), Over(PageWidth, Lit(3)), Over(PageHeight, Lit(3))),
                    TCell(1, Over(PageWidth, Lit(3)), Lit(0), Over(PageWidth, Lit(3)), Over(PageHeight, Lit(3))),
                    TCell(2, Over(Times(PageWidth, Lit(2)), Lit(3)), Lit(0), Over(PageWidth, Lit(3)), Over(PageHeight, Lit(3))),
                    TCell(3, Lit(0), Over(PageHeight, Lit(3)), Over(PageWidth, Lit(3)), Over(PageHeight, Lit(3))),
                    TCell(4, Over(PageWidth, Lit(3)), Over(PageHeight, Lit(3)), Over(PageWidth, Lit(3)), Over(PageHeight, Lit(3))),
                    TCell(5,
                          Over(Times(PageWidth, Lit(2)), Lit(3)),
                          Over(PageHeight, Lit(3)),
                          Over(PageWidth, Lit(3)),
                          Over(PageHeight, Lit(3))),
                    TCell(6, Lit(0), Over(Times(PageHeight, Lit(2)), Lit(3)), Over(PageWidth, Lit(2)), Over(PageHeight, Lit(3))),
                    TCell(7,
                          Over(PageWidth, Lit(2)),
                          Over(Times(PageHeight, Lit(2)), Lit(3)),
                          Over(PageWidth, Lit(2)),
                          Over(PageHeight, Lit(3))) >>],
       \* lines 2297-2375
       [name |-> "eight-mixed-two-two-two-two",
        cells |-> << TCell(0, Lit(0), Lit(0), Over(PageWidth, Lit(2)), Over(PageHeight, Lit(4))),
                    TCell(1, Over(PageWidth, Lit(2)), Lit(0), Over(PageWidth, Lit(2)), Over(PageHeight, Lit(4))),
                    TCell(2, Lit(0), Over(PageHeight, Lit(4)), Over(PageWidth, Lit(2)), Over(PageHeight, Lit(4))),
                    TCell(3, Over(PageWidth, Lit(2)), Over(PageHeight, Lit(4)), Over(PageWidth, Lit(2)), Over(PageHeight, Lit(4))),
                    TCell(4, Lit(0), Over(PageHeight, Lit(2)), Over(PageWidth, Lit(2)), Over(PageHeight, Lit(4))),
                    TCell(5, Over(PageWidth, Lit(2)), Over(PageHeight, Lit(2)), Over(PageWidth, Lit(2)), Over(PageHeight, Lit(4))),
                    TCell(6, Lit(0), Over(Times(PageHeight, Lit(3)), Lit(4)), Over(PageWidth, Lit(2)), Over(PageHeight, Lit(4))),
                    TCell(7,
                          Over(PageWidth, Lit(2)),
                          Over(Times(PageHeight, Lit(3)), Lit(4)),
                          Over(PageWidth, Lit(2)),
                          Over(PageHeight, Lit(4))) >>],
       \* lines 2376-2452
       [name |-> "eight-mixed-two-two-four",
        cells |-> << TCell(0, Lit(0), Lit(0), Over(PageWidth, Lit(2)), Over(PageHeight, Lit(3))),
                    TCell(1, Over(PageWidth, Lit(2)), Lit(0), Over(PageWidth, Lit(2)), Over(PageHeight, Lit(3))),
                    TCell(2, Lit(0), Over(PageHeight, Lit(3)), Over(PageWidth, Lit(2)), Over(PageHeight, Lit(3))),
                    TCell(3, Over(PageWidth, Lit(2)), Over(PageHeight, Lit(3)), Over(PageWidth, Lit(2)), Over(PageHeight, Lit(3))),
                    TCell(4, Lit(0), Over(Times(PageHeight, Lit(2)), Lit(3)), Over(PageWidth, Lit(4)), Over(PageHeight, Lit(3))),
                    TCell(5,
                          Over(PageWidth, Lit(4)),
                          Over(Times(PageHeight, Lit(2)), Lit(3)),
                          Over(PageWidth, Lit(4)),
                          Over(PageHeight, Lit(3))),
                    TCell(6,
                          Over(PageWidth, Lit(2)),
                          Over(Times(PageHeight, Lit(2)), Lit(3)),
                          Over(PageWidth, Lit(4)),
                          Over(PageHeight, Lit(3))),
                    TCell(7,
                          Over(Times(PageWidth, Lit(3)), Lit(4)),
                          Over(Times(PageHeight, Lit(2)), Lit(3)),
                          Over(PageWidth, Lit(4)),
                          Over(PageHeight, Lit(3))) >>],
       \* lines 2453-2532
       [name |-> "eight-mixed-left-one-right-three-top-left-three-right-one-bottom",
        cells |-> << TCell(0, Lit(0), Lit(0), Over(PageWidth, Lit(4)), Over(PageHeight, Lit(2))),
                    TCell(1, Over(PageWidth, Lit(4)), Lit(0), Over(PageWidth, Lit(4)), Over(PageHeight, Lit(2))),
                    TCell(2, Over(PageWidth, Lit(2)), Lit(0), Over(PageWidth, Lit(4)), Over(PageHeight, Lit(2))),
                    TCell(3, Over(Times(PageWidth, Lit(3)), Lit(4)), Lit(0), Over(PageWidth, Lit(4)), Over(PageHeight, Lit(2))),
                    TCell(4, Lit(0), Over(PageHeight, Lit(2)), Over(PageWidth, Lit(4)), Over(PageHeight, Lit(2))),
                    TCell(5, Over(PageWidth, Lit(4)), Over(PageHeight, Lit(2)), Over(PageWidth, Lit(4)), Over(PageHeight, Lit(2))),
                    TCell(6, Over(PageWidth, Lit(2)), Over(PageHeight, Lit(2)), Over(PageWidth, Lit(4)), Over(PageHeight, Lit(2))),
                    TCell(7,
                          Over(Times(PageWidth, Lit(3)), Lit(4)),
                          Over(PageHeight, Lit(2)),
                          Over(PageWidth, Lit(4)),
                          Over(PageHeight, Lit(2))) >>],
       \* lines 2533-2612
       [name |-> "eight-mixed-left-two-right-two-both-rows",
        cells |-> << TCell(0, Lit(0), Lit(0), Over(PageWidth, Lit(2)), Over(PageHeight, Lit(4))),
                    TCell(1, Lit(0), Over(PageHeight, Lit(4)), Over(PageWidth, Lit(2)), Over(PageHeight, Lit(4))),
                    TCell(2, Over(PageWidth, Lit(2)), Lit(0), Over(PageWidth, Lit(2)), Over(PageHeight, Lit(4))),
                    TCell(3, Over(PageWidth, Lit(2)), Over(PageHeight, Lit(4)), Over(PageWidth, Lit(2)), Over(PageHeight, Lit(4))),
                    TCell(4, Lit(0), Over(PageHeight, Lit(2)), Over(PageWidth, Lit(2)), Over(PageHeight, Lit(4))),
                    TCell(5, Lit(0), Over(Times(PageHeight, Lit(3)), Lit(4)), Over(PageWidth, Lit(2)), Over(PageHeight, Lit(4))),
                    TCell(6, Over(PageWidth, Lit(2)), Over(PageHeight, Lit(2)), Over(PageWidth, Lit(2)), Over(PageHeight, Lit(4))),
                    TCell(7,
                          Over(PageWidth, Lit(2)),
                          Over(Times(PageHeight, Lit(3)), Lit(4)),
                          Over(PageWidth, Lit(2)),
                          Over(PageHeight, Lit(4))) >>],
       \* lines 2613-2688
       [name |-> "eight-mixed-four-four",
        cells |-> << TCell(0, Lit(0), Lit(0), Over(PageWidth, Lit(4)), Over(PageHeight, Lit(2))),
                    TCell(1, Over(PageWidth, Lit(4)), Lit(0), Over(PageWidth, Lit(4)), Over(PageHeight, Lit(2))),
                    TCell(2, Over(PageWidth, Lit(2)), Lit(0), Over(PageWidth, Lit(4)), Over(PageHeight, Lit(2))),
                    TCell(3, Over(Times(PageWidth, Lit(3)), Lit(4)), Lit(0), Over(PageWidth, Lit(4)), Over(PageHeight, Lit(2))),
                    TCell(4, Lit(0), Over(PageHeight, Lit(2)), Over(PageWidth, Lit(4)), Over(PageHeight, Lit(2))),
                    TCell(5, Over(PageWidth, Lit(4)), Over(PageHeight, Lit(2)), Over(PageWidth, Lit(4)), Over(PageHeight, Lit(2))),
                    TCell(6, Over(PageWidth, Lit(2)), Over(PageHeight, Lit(2)), Over(PageWidth, Lit(4)), Over(PageHeight, Lit(2))),
                    TCell(7,
                          Over(Times(PageWidth, Lit(3)), Lit(4)),
                          Over(PageHeight, Lit(2)),
                          Over(PageWidth, Lit(4)),
                          Over(PageHeight, Lit(2))) >>],
       \* lines 2689-2765
       [name |-> "eight-mixed-three-two-three",
        cells |-> << TCell(0, Lit(0), Lit(0), Over(PageWidth, Lit(3)), Over(PageHeight, Lit(3))),
                    TCell(1, Over(PageWidth, Lit(3)), Lit(0), Over(PageWidth, Lit(3)), Over(PageHeight, Lit(3))),
                    TCell(2, Over(Times(PageWidth, Lit(2)), Lit(3)), Lit(0), Over(PageWidth, Lit(3)), Over(PageHeight, Lit(3))),
                    TCell(3, Lit(0), Over(PageHeight, Lit(3)), Over(PageWidth, Lit(2)), Over(PageHeight, Lit(3))),
                    TCell(4, Over(PageWidth, Lit(2)), Over(PageHeight, Lit(3)), Over(PageWidth, Lit(2)), Over(PageHeight, Lit(3))),
                    TCell(5, Lit(0), Over(Times(PageHeight, Lit(2)), Lit(3)), Over(PageWidth, Lit(3)), Over(PageHeight, Lit(3))),
                    TCell(6,
                          Over(PageWidth, Lit(3)),
                          Over(Times(PageHeight, Lit(2)), Lit(3)),
                          Over(PageWidth, Lit(3)),
                          Over(PageHeight, Lit(3))),
                    TCell(7,
                          Over(Times(PageWidth, Lit(2)), Lit(3)),
                          Over(Times(PageHeight, Lit(2)), Lit(3)),
                          Over(PageWidth, Lit(3)),
                          Over(PageHeight, Lit(3))) >>],
       \* lines 2766-2840
       [name |-> "eight-mixed-one-three-four",
        cells |-> << TCell(0, Lit(0), Lit(0), PageWidth, Over(PageHeight, Lit(3))),
                    TCell(1, Lit(0), Over(PageHeight, Lit(3)), Over(PageWidth, Lit(3)), Over(PageHeight, Lit(3))),
                    TCell(2, Over(PageWidth, Lit(3)), Over(PageHeight, Lit(3)), Over(PageWidth, Lit(3)), Over(PageHeight, Lit(3))),
                    TCell(3,
                          Over(Times(PageWidth, Lit(2)), Lit(3)),
                          Over(PageHeight, Lit(3)),
                          Over(PageWidth, Lit(3)),
                          Over(PageHeight, Lit(3))),
                    TCell(4, Lit(0), Over(Times(PageHeight, Lit(2)), Lit(3)), Over(PageWidth, Lit(4)), Over(PageHeight, Lit(3))),
                    TCell(5,
                          Over(PageWidth, Lit(4)),
                          Over(Times(PageHeight, Lit(2)), Lit(3)),
                          Over(PageWidth, Lit(4)),
                          Over(PageHeight, Lit(3))),
                    TCell(6,
                          Over(PageWidth, Lit(2)),
                          Over(Times(PageHeight, Lit(2)), Lit(3)),
                          Over(PageWidth, Lit(4)),
                          Over(PageHeight, Lit(3))),
                    TCell(7,
                          Over(Times(PageWidth, Lit(3)), Lit(4)),
                          Over(Times(PageHeight, Lit(2)), Lit(3)),
                          Over(PageWidth, Lit(4)),
                          Over(PageHeight, Lit(3))) >>] >>

\* the hard-coded layouts for 9 photos, in the order they are pushed, on a
\* page whose width and height stand as PageWidth and PageHeight
ComplexTemplates9 ==
    << \* lines 2851-2936
       [name |-> "nine-mixed-three-three-three",
        cells |-> << TCell(0, Lit(0), Lit(0), Over(PageWidth, Lit(3)), Over(PageHeight, Lit(3))),
                    TCell(1, Over(PageWidth, Lit(3)), Lit(0), Over(PageWidth, Lit(3)), Over(PageHeight, Lit(3))),
                    TCell(2, Over(Times(PageWidth, Lit(2)), Lit(3)), Lit(0), Over(PageWidth, Lit(3)), Over(PageHeight, Lit(3))),
                    TCell(3, Lit(0), Over(PageHeight, Lit(3)), Over(PageWidth, Lit(3)), Over(PageHeight, Lit(3))),
                    TCell(4, Over(PageWidth, Lit(3)), Over(PageHeight, Lit(3)), Over(PageWidth, Lit(3)), Over(PageHeight, Lit(3))),
                    TCell(5,
                          Over(Times(PageWidth, Lit(2)), Lit(3)),
                          Over(PageHeight, Lit(3)),
                          Over(PageWidth, Lit(3)),
                          Over(PageHeight, Lit(3))),
                    TCell(6, Lit(0), Over(Times(PageHeight, Lit(2)), Lit(3)), Over(PageWidth, Lit(3)), Over(PageHeight, Lit(3))),
                    TCell(7,
                          Over(PageWidth, Lit(3)),
                          Over(Times(PageHeight, Lit(2)), Lit(3)),
                          Over(PageWidth, Lit(3)),
                          Over(PageHeight, Lit(3))),
                    TCell(8,
                          Over(Times(PageWidth, Lit(2)), Lit(3)),
                          Over(Times(PageHeight, Lit(2)), Lit(3)),
                          Over(PageWidth, Lit(3)),
                          Over(PageHeight, Lit(3))) >>],
       \* lines 2937-3022
       [name |-> "nine-mixed-two-two-two-three",
        cells |-> << TCell(0, Lit(0), Lit(0), Over(PageWidth, Lit(2)), Over(PageHeight, Lit(4))),
                    TCell(1, Over(PageWidth, Lit(2)), Lit(0), Over(PageWidth, Lit(2)), Over(PageHeight, Lit(4))),
                    TCell(2, Lit(0), Over(PageHeight, Lit(4)), Over(PageWidth, Lit(2)), Over(PageHeight, Lit(4))),
                    TCell(3, Over(PageWidth, Lit(2)), Over(PageHeight, Lit(4)), Over(PageWidth, Lit(2)), Over(PageHeight, Lit(4))),
                    TCell(4, Lit(0), Over(PageHeight, Lit(2)), Over(PageWidth, Lit(2)), Over(PageHeight, Lit(4))),
                    TCell(5, Over(PageWidth, Lit(2)), Over(PageHeight, Lit(2)), Over(PageWidth, Lit(2)), Over(PageHeight, Lit(4))),
                    TCell(6, Lit(0), Over(Times(PageHeight, Lit(3)), Lit(4)), Over(PageWidth, Lit(3)), Over(PageHeight, Lit(4))),
                    TCell(7,
                          Over(PageWidth, Lit(3)),
                          Over(Times(PageHeight, Lit(3)), Lit(4)),
                          Over(PageWidth, Lit(3)),
                          Over(PageHeight, Lit(4))),
                    TCell(8,
                          Over(Times(PageWidth, Lit(2)), Lit(3)),
                          Over(Times(PageHeight, Lit(3)), Lit(4)),
                          Over(PageWidth, Lit(3)),
                          Over(PageHeight, Lit(4))) >>],
       \* lines 3023-3107
       [name |-> "nine-mixed-three-two-four",
        cells |-> << TCell(0, Lit(0), Lit(0), Over(PageWidth, Lit(3)), Over(PageHeight, Lit(3))),
                    TCell(1, Over(PageWidth, Lit(3)), Lit(0), Over(PageWidth, Lit(3)), Over(PageHeight, Lit(3))),
                    TCell(2, Over(Times(PageWidth, Lit(2)), Lit(3)), Lit(0), Over(PageWidth, Lit(3)), Over(PageHeight, Lit(3))),
                    TCell(3, Lit(0), Over(PageHeight, Lit(3)), Over(PageWidth, Lit(2)), Over(PageHeight, Lit(3))),
                    TCell(4, Over(PageWidth, Lit(2)), Over(PageHeight, Lit(3)), Over(PageWidth, Lit(2)), Over(PageHeight, Lit(3))),
                    TCell(5, Lit(0), Over(Times(PageHeight, Lit(2)), Lit(3)), Over(PageWidth, Lit(4)), Over(PageHeight, Lit(3))),
                    TCell(6,
                          Over(PageWidth, Lit(4)),
                          Over(Times(PageHeight, Lit(2)), Lit(3)),
                          Over(PageWidth, Lit(4)),
                          Over(PageHeight, Lit(3))),
                    TCell(7,
                          Over(PageWidth, Lit(2)),
                          Over(Times(PageHeight, Lit(2)), Lit(3)),
                          Over(PageWidth, Lit(4)),
                          Over(PageHeight, Lit(3))),
                    TCell(8,
                          Over(Times(PageWidth, Lit(3)), Lit(4)),
                          Over(Times(PageHeight, Lit(2)), Lit(3)),
                          Over(PageWidth, Lit(4)),
                          Over(PageHeight, Lit(3))) >>],
       \* lines 3108-3192
       [name |-> "nine-mixed-four-two-three",
        cells |-> << TCell(0, Lit(0), Lit(0), Over(PageWidth, Lit(4)), Over(PageHeight, Lit(3))),
                    TCell(1, Over(PageWidth, Lit(4)), Lit(0), Over(PageWidth, Lit(4)), Over(PageHeight, Lit(3))),
                    TCell(2, Over(PageWidth, Lit(2)), Lit(0), Over(PageWidth, Lit(4)), Over(PageHeight, Lit(3))),
                    TCell(3, Over(Times(PageWidth, Lit(3)), Lit(4)), Lit(0), Over(PageWidth, Lit(4)), Over(PageHeight, Lit(3))),
                    TCell(4, Lit(0), Over(PageHeight, Lit(3)), Over(PageWidth, Lit(2)), Over(PageHeight, Lit(3))),
                    TCell(5, Over(PageWidth, Lit(2)), Over(PageHeight, Lit(3)), Over(PageWidth, Lit(2)), Over(PageHeight, Lit(3))),
                    TCell(6, Lit(0), Over(Times(PageHeight, Lit(2)), Lit(3)), Over(PageWidth, Lit(3)), Over(PageHeight, Lit(3))),
                    TCell(7,
                          Over(PageWidth, Lit(3)),
                          Over(Times(PageHeight, Lit(2)), Lit(3)),
                          Over(PageWidth, Lit(3)),
                          Over(PageHeight, Lit(3))),
                    TCell(8,
                          Over(Times(PageWidth, Lit(2)), Lit(3)),
                          Over(Times(PageHeight, Lit(2)), Lit(3)),
                          Over(PageWidth, Lit(3)),
                          Over(PageHeight, Lit(3))) >>],
       \* lines 3193-3277
       [name |-> "nine-mixed-one-four-four",
        cells |-> << TCell(0, Lit(0), Lit(0), PageWidth, Over(PageHeight, Lit(3))),
                    TCell(1, Lit(0), Over(PageHeight, Lit(3)), Over(PageWidth, Lit(4)), Over(PageHeight, Lit(3))),
                    TCell(2, Over(PageWidth, Lit(4)), Over(PageHeight, Lit(3)), Over(PageWidth, Lit(4)), Over(PageHeight, Lit(3))),
                    TCell(3, Over(PageWidth, Lit(2)), Over(PageHeight, Lit(3)), Over(PageWidth, Lit(4)), Over(PageHeight, Lit(3))),
                    TCell(4,
                          Over(Times(PageWidth, Lit(3)), Lit(4)),
                          Over(PageHeight, Lit(3)),
                          Over(PageWidth, Lit(4)),
                          Over(PageHeight, Lit(3))),
                    TCell(5, Lit(0), Over(Times(PageHeight, Lit(2)), Lit(3)), Over(PageWidth, Lit(4)), Over(PageHeight, Lit(3))),
                    TCell(6,
                          Over(PageWidth, Lit(4)),
                          Over(Times(PageHeight, Lit(2)), Lit(3)),
                          Over(PageWidth, Lit(4)),
                          Over(PageHeight, Lit(3))),
                    TCell(7,
                          Over(PageWidth, Lit(2)),
                          Over(Times(PageHeight, Lit(2)), Lit(3)),
                          Over(PageWidth, Lit(4)),
                          Over(PageHeight, Lit(3))),
                    TCell(8,
                          Over(Times(PageWidth, Lit(3)), Lit(4)),
                          Over(Times(PageHeight, Lit(2)), Lit(3)),
                          Over(PageWidth, Lit(4)),
                          Over(PageHeight, Lit(3))) >>],
       \* lines 3278-3366
       [name |-> "nine-mixed-center-dominant",
        cells |-> << TCell(0, Lit(0), Lit(0), Over(PageWidth, Lit(3)), Over(PageWidth, Lit(3))),
                    TCell(1, Over(PageWidth, Lit(3)), Lit(0), Over(PageWidth, Lit(3)), Over(PageWidth, Lit(3))),
                    TCell(2, Times(Over(PageWidth, Lit(3)), Lit(2)), Lit(0), Over(PageWidth, Lit(3)), Over(PageWidth, Lit(3))),
                    TCell(3, Lit(0), Over(PageWidth, Lit(3)), Over(PageWidth, Lit(3)), Over(PageWidth, Lit(3))),
                    TCell(4, Over(PageWidth, Lit(3)), Over(PageWidth, Lit(3)), Over(PageWidth, Lit(3)), Over(PageWidth, Lit(3))),
                    TCell(5,
                          Times(Over(PageWidth, Lit(3)), Lit(2)),
                          Over(PageWidth, Lit(3)),
                          Over(PageWidth, Lit(3)),
                          Over(PageWidth, Lit(3))),
                    TCell(6, Lit(0), Times(Over(PageWidth, Lit(3)), Lit(2)), Over(PageWidth, Lit(3)), Over(PageWidth, Lit(3))),
                    TCell(7,
                          Over(PageWidth, Lit(3)),
                          Times(Over(PageWidth, Lit(3)), Lit(2)),
                          Over(PageWidth, Lit(3)),
                          Over(PageWidth, Lit(3))),
                    TCell(8,
                          Times(Over(PageWidth, Lit(3)), Lit(2)),
                          Times(Over(PageWidth, Lit(3)), Lit(2)),
                          Over(PageWidth, Lit(3)),
                          Over(PageWidth, Lit(3))) >>],
       \* lines 3367-3451
       [name |-> "nine-mixed-two-three-four",
        cells |-> << TCell(0, Lit(0), Lit(0), Over(PageWidth, Lit(2)), Over(PageHeight, Lit(3))),
                    TCell(1, Over(PageWidth, Lit(2)), Lit(0), Over(PageWidth, Lit(2)), Over(PageHeight, Lit(3))),
                    TCell(2, Lit(0), Over(PageHeight, Lit(3)), Over(PageWidth, Lit(3)), Over(PageHeight, Lit(3))),
                    TCell(3, Over(PageWidth, Lit(3)), Over(PageHeight, Lit(3)), Over(PageWidth, Lit(3)), Over(PageHeight, Lit(3))),
                    TCell(4,
                          Over(Times(PageWidth, Lit(2)), Lit(3)),
                          Over(PageHeight, Lit(3)),
                          Over(PageWidth, Lit(3)),
                          Over(PageHeight, Lit(3))),
                    TCell(5, Lit(0), Over(Times(PageHeight, Lit(2)), Lit(3)), Over(PageWidth, Lit(4)), Over(PageHeight, Lit(3))),
                    TCell(6,
                          Over(PageWidth, Lit(4)),
                          Over(Times(PageHeight, Lit(2)), Lit(3)),
                          Over(PageWidth, Lit(4)),
                          Over(PageHeight, Lit(3))),
                    TCell(7,
                          Over(PageWidth, Lit(2)),
                          Over(Times(PageHeight, Lit(2)), Lit(3)),
                          Over(PageWidth, Lit(4)),
                          Over(PageHeight, Lit(3))),
                    TCell(8,
                          Over(Times(PageWidth, Lit(3)), Lit(4)),
                          Over(Times(PageHeight, Lit(2)), Lit(3)),
                          Over(PageWidth, Lit(4)),
                          Over(PageHeight, Lit(3))) >>],
       \* lines 3452-3534
       [name |-> "nine-mixed-four-three-two",
        cells |-> << TCell(0, Lit(0), Lit(0), Over(PageWidth, Lit(4)), Over(PageHeight, Lit(3))),
                    TCell(1, Over(PageWidth, Lit(4)), Lit(0), Over(PageWidth, Lit(4)), Over(PageHeight, Lit(3))),
                    TCell(2, Over(PageWidth, Lit(2)), Lit(0), Over(PageWidth, Lit(4)), Over(PageHeight, Lit(3))),
                    TCell(3, Over(Times(PageWidth, Lit(3)), Lit(4)), Lit(0), Over(PageWidth, Lit(4)), Over(PageHeight, Lit(3))),
                    TCell(4, Lit(0), Over(PageHeight, Lit(3)), Over(PageWidth, Lit(3)), Over(PageHeight, Lit(3))),
                    TCell(5, Over(PageWidth, Lit(3)), Over(PageHeight, Lit(3)), Over(PageWidth, Lit(3)), Over(PageHeight, Lit(3))),
                    TCell(6,
                          Over(Times(PageWidth, Lit(2)), Lit(3)),
                          Over(PageHeight, Lit(3)),
                          Over(PageWidth, Lit(3)),
                          Over(PageHeight, Lit(3))),
                    TCell(7, Lit(0), Over(Times(PageHeight, Lit(2)), Lit(3)), Over(PageWidth, Lit(2)), Over(PageHeight, Lit(3))),
                    TCell(8,
                          Over(PageWidth, Lit(2)),
                          Over(Times(PageHeight, Lit(2)), Lit(3)),
                          Over(PageWidth, Lit(2)),
                          Over(PageHeight, Lit(3))) >>] >>
\* the layouts of the 6-photo table that get an explicitly named optimized variant
\* (layout12..layout15)
OptimizedSix == <<12, 13, 14, 15>>

generateCompositeLayouts(ps, page) ==
    IF Len(ps) = 5 THEN FromTemplates(ps, page, CompositeTemplates5)
    ELSE IF Len(ps) = 6
    THEN The({ plain \o Tup([k \in 1..Len(OptimizedSix) |->
                               createOptimizedLayoutS(ps, plain[OptimizedSix[k]].cells,
                                   plain[OptimizedSix[k]].name \o "-optimized")])
               : plain \in {FromTemplates(ps, page, CompositeTemplates6)} })
    ELSE <<>>

\* layouts.forEach(layout => layouts.push(createOptimizedLayout(...))): forEach visits
\* the elements below the length the array had when it was called
WithOptimizedVariants(ps, plain0) ==
    The({ plain \o Tup([k \in 1..Len(plain) |->
                          createOptimizedLayoutS(ps, plain[k].cells, plain[k].name \o "-optimized")])
          : plain \in {plain0} })

generateComplexLayouts(ps, page) ==
    IF Len(ps) = 7 THEN WithOptimizedVariants(ps,
             FromTemplates(ps, page, ComplexTemplates7))
    ELSE IF Len(ps) = 8 THEN WithOptimizedVariants(ps,
             FromTemplates(ps, page, ComplexTemplates8))
    ELSE IF Len(ps) = 9 THEN WithOptimizedVariants(ps,
             FromTemplates(ps, page, ComplexTemplates9))
    ELSE <<>>

\* the layouts generateLayouts collects before deduplication
BuildLayoutsS(sorted0, page) ==
    The({ generateHStackLayouts(sorted, page)
          \o generateVStackLayouts(sorted, page)
          \o generateMixedRowLayouts(sorted, page)
          \o generateNestedLayouts(sorted, page)
          \o generateCompositeLayouts(sorted, page)
          \o generateComplexLayouts(sorted, page)
          : sorted \in {sorted0} })

\* k written with six digits
Pad6(k) ==
    (IF k < 10 THEN "00000" ELSE IF k < 100 THEN "0000" ELSE IF k < 1000 THEN "000"
     ELSE IF k < 10000 THEN "00" ELSE IF k < 100000 THEN "0" ELSE "") \o ToString(k)

\* Number.prototype.toFixed(6) for |v| < 2000: the decimal number with six decimals
\* nearest to v (the larger one of two equally near), "-" before it if v < 0
ToFixed6(v0) ==
    The({ IF IsNaN(v) THEN "NaN"
          ELSE IF IsInfinite(v) THEN (IF v[1] < 0 THEN "-Infinity" ELSE "Infinity")
          ELSE The({ (IF NLt(v, R(0)) THEN "-" ELSE "")
                     \o ToString(micro \div 1000000) \o "." \o Pad6(micro % 1000000)
                     : micro \in {RoundedScaled(v, 1000000)} })
          : v \in {v0} })

\* the signature of the strict generator: the normalized rectangles sorted by y
\* then x, each as "x-y-width-height" with six decimals, joined by "|"
getLayoutSignatureS(layout, page) ==
    The({ LET part(c) == ToFixed6(c.x) \o "-" \o ToFixed6(c.y) \o "-"
                         \o ToFixed6(c.width) \o "-" \o ToFixed6(c.height)
          IN  Join(Tup([i \in 1..Len(normalizedCells) |->
                          (IF i = 1 THEN "" ELSE "|") \o part(normalizedCells[i])]))
          : normalizedCells \in {
              SortCellsYX(Tup([i \in 1..Len(layout.cells) |->
                  Box(NDiv(layout.cells[i].x, R(page.width)),
                      NDiv(layout.cells[i].y, R(page.height)),
                      NDiv(layout.cells[i].width, R(page.width)),
                      NDiv(layout.cells[i].height, R(page.height)))]))} })

\* faulty variant of removeDuplicateLayoutsS: nothing is dropped (C2's formula must
\* notice)
KeepEveryLayout(ls0, page) == ls0

\* faulty variant of removeDuplicateLayoutsS: of the layouts with one signature the
\* last is kept, not the first (C27's formula must notice)
KeepLastOfSignature(ls0, page) ==
    The({ The({ Concat(Tup([i \in 1..Len(ls) |->
                              IF \E j \in (i + 1)..Len(ls) : sig[j] = sig[i] THEN <<>> ELSE <<ls[i]>>]))
                : sig \in {Tup([i \in 1..Len(ls) |-> getLayoutSignatureS(ls[i], page)])} })
          : ls \in {ls0} })

\* strict deduplication: a layout is pushed iff no earlier layout has its signature
removeDuplicateLayoutsS(ls0, page) ==
    The({ The({ Concat(Tup([i \in 1..Len(ls) |->
                              IF \E j \in 1..(i - 1) : sig[j] = sig[i] THEN <<>> ELSE <<ls[i]>>]))
                : sig \in {Tup([i \in 1..Len(ls) |-> getLayoutSignatureS(ls[i], page)])} })
          : ls \in {ls0} })

\* Math.min(1, totalUsedArea / totalPageArea)
calculateUtilizationS(layout, page) ==
    LET totalPageArea == NMul(R(page.width), R(page.height))
        c == layout.cells
        totalUsedArea == NSum(Tup([i \in 1..Len(c) |-> NMul(c[i].width, c[i].height)]))
    IN  NMin(R(1), NDiv(totalUsedArea, totalPageArea))

\* faulty variant of CellCroppingRateS: the difference of the aspect ratios is not
\* divided by the larger one (C10's formula must notice)
AspectRatioGap(cell) ==
    NAbs(NSub(AspectRatio(cell.photo), NDiv(cell.width, cell.height)))

\* |original - cell| / max(original, cell) of the aspect ratios
CellCroppingRateS(cell) ==
    The({ NDiv(NAbs(NSub(originalAspectRatio, cellAspectRatio)),
               NMax(originalAspectRatio, cellAspectRatio))
          : originalAspectRatio \in {AspectRatio(cell.photo)},
            cellAspectRatio \in {NDiv(cell.width, cell.height)} })

calculateCroppingRateS(layout) ==
    The({ NDiv(NSum(Tup([i \in 1..Len(c) |-> CellCroppingRateS(c[i])])), R(Len(c)))
          : c \in {layout.cells} })

\* Math.max(0, 1 - variance / (avgArea^2 * (areas.length - 1)))
calculateSizeBalanceS(layout) ==
    The({ The({ LET variance == Variance(areas, avgArea)
                    maxPossibleVariance == NMul(Squared(avgArea), R(Len(areas) - 1))
                IN  NMax(R(0), NSub(R(1), NDiv(variance, maxPossibleVariance)))
                : avgArea \in {NDiv(NSum(areas), R(Len(areas)))} })
          : areas \in {Areas(layout)} })

\* score = utilization * 0.5 + (1 - croppingRate) * 0.3 + sizeBalance * 0.2
ScoreS(utilization, croppingRate, sizeBalance) ==
    NAdd(NAdd(NMul(utilization, Frac(5, 10)),
              NMul(NSub(R(1), croppingRate), Frac(3, 10))),
         NMul(sizeBalance, Frac(2, 10)))

\* { ...layout, score, metrics }
ScoredS(layout, utilization, croppingRate, sizeBalance) ==
    Spread(layout,
           [score |-> ScoreS(utilization, croppingRate, sizeBalance),
            metrics |-> [utilization |-> utilization, croppingRate |-> croppingRate,
                         sizeBalance |-> sizeBalance]])

scoreLayoutsS(ls0, page) ==
    The({ SortByScore(Tup([i \in 1..Len(ls) |->
              The({ ScoredS(ls[i], utilization, croppingRate, sizeBalance)
                    : utilization \in {calculateUtilizationS(ls[i], page)},
                      croppingRate \in {calculateCroppingRateS(ls[i])},
                      sizeBalance \in {calculateSizeBalanceS(ls[i])} })]))
          : ls \in {ls0} })

generateLayoutsS(ps, page) ==
    IF NoPhotos(ps) THEN <<>>
    ELSE scoreLayoutsS(removeDuplicateLayoutsS(BuildLayoutsS(SortPhotos(ps), page), page), page)

(***************************************************************************)
(* Inputs                                                                  *)
(***************************************************************************)
\* largest number of photos in a call
MaxPhotos == 9

\* photo sizes (width, height) the inputs are drawn from
PhotoSizes == << <<4, 3>>, <<3, 4>>, <<1, 1>>, <<2, 1>> >>

Photo(id, size) == [id |-> id, width |-> size[1], height |-> size[2]]

\* photo lists: n photos whose sizes run through PhotoSizes from offset a with stride b
PhotoList(n, a, b) ==
    Tup([i \in 1..n |-> Photo(i, PhotoSizes[((a + (i - 1) * b) % Len(PhotoSizes)) + 1])])

PhotoLists == {PhotoList(n, a, b) : n \in 0..MaxPhotos, a \in 0..(Len(PhotoSizes) - 1), b \in 0..1}

\* pages with positive width and height
PageSizes == {[width |-> 4, height |-> 3], [width |-> 3, height |-> 4], [width |-> 1, height |-> 1]}

\* pages with a width or height that is zero or negative
DegeneratePageSizes ==
    {[width |-> 0, height |-> 3], [width |-> 4, height |-> 0], [width |-> -4, height |-> 3]}

PositivePage(page) == page.width > 0 /\ page.height > 0

\* a page whose aspect ratio is no binary fraction (29 / 28 is rounded up)
OddPageSizes == {[width |-> 29, height |-> 28]}

\* the lists of photos that all have the size of the page
PageShapedLists(page) ==
    {Tup([i \in 1..n |-> Photo(i, <<page.width, page.height>>)]) : n \in 1..MaxPhotos}

\* the calls: a photo list (or none) with any page, or photos of the page's own shape
Calls ==
    {<<ps, page>> : ps \in PhotoLists \cup {MissingPhotos}, page \in PageSizes \cup DegeneratePageSizes}
    \cup UNION {{<<ps, page>> : ps \in PageShapedLists(page)} : page \in OddPageSizes}

(***************************************************************************)
(* One call of generateLayouts, step by step, for either generator         *)
(***************************************************************************)
F64Idle ==
    /\ layoutDescriptor = Null
    /\ cellIndex = 0
    /\ usedArea = R(0)

LoopIdle ==
    /\ forEachIndex = 0
    /\ forEachLength = 0

UiIdle ==
    /\ uploaderPhotos = <<>>
    /\ selectedFiles = <<>>
    /\ loading = {}
    /\ pickedFiles = 0

OptIdle ==
    /\ builder = "none"
    /\ givenCells = <<>>
    /\ cellsWithoutPhotos = <<>>
    /\ remainingPhotos = <<>>
    /\ optimizedLayout = Null

InitGen ==
    /\ LoopIdle
    /\ UiIdle
    /\ generator \in {"descriptor", "strict"}
    /\ pc = "start"
    /\ \E call \in Calls : photos = call[1] /\ pageSize = call[2]
    /\ sortedPhotos = <<>>
    /\ descriptors = <<>>
    /\ layouts = <<>>
    /\ uniqueLayouts = <<>>
    /\ result = <<>>
    /\ F64Idle
    /\ OptIdle

\* if (!photos || photos.length === 0) return [];
ReturnEmptyD ==
    /\ generator = "descriptor"
    /\ pc = "start"
    /\ NoPhotos(photos)
    /\ pc' = "done"
    /\ result' = <<>>
    /\ UNCHANGED <<loopVars, uiVars, generator, photos, pageSize, sortedPhotos, layouts, uniqueLayouts, descriptors, f64Vars, optVars>>

\* const sortedPhotos = [...photos].sort(...); spreading a missing list throws
SortD ==
    /\ generator = "descriptor"
    /\ pc = "start"
    /\ ~NoPhotos(photos)
    /\ IF photos = MissingPhotos
       THEN pc' = "thrown" /\ UNCHANGED sortedPhotos
       ELSE pc' = "sorted" /\ sortedPhotos' = SortPhotos(photos)
    /\ UNCHANGED <<loopVars, uiVars, generator, photos, pageSize, layouts, uniqueLayouts, result, descriptors, f64Vars, optVars>>

\* const descriptors = getLayoutDescriptorsForPhotoCount(photos.length);
GetDescriptorsD ==
    /\ generator = "descriptor"
    /\ pc = "sorted"
    /\ descriptors' = getLayoutDescriptorsForPhotoCount(Len(photos))
    /\ pc' = "described"
    /\ UNCHANGED <<loopVars, uiVars, generator, photos, pageSize, sortedPhotos, layouts, uniqueLayouts, result, f64Vars, optVars>>

BuildD ==
    /\ generator = "descriptor"
    /\ pc = "described"
    /\ layouts' = LayoutsOfDescriptors(sortedPhotos, pageSize, descriptors)
    /\ pc' = "built"
    /\ UNCHANGED <<loopVars, uiVars, generator, photos, pageSize, sortedPhotos, uniqueLayouts, result, descriptors, f64Vars, optVars>>

DedupD ==
    /\ generator = "descriptor"
    /\ pc = "built"
    /\ uniqueLayouts' = removeDuplicateLayoutsD(layouts, pageSize)
    /\ pc' = "deduplicated"
    /\ UNCHANGED <<loopVars, uiVars, generator, photos, pageSize, sortedPhotos, layouts, result, descriptors, f64Vars, optVars>>

ScoreStepD ==
    /\ generator = "descriptor"
    /\ pc = "deduplicated"
    /\ result' = scoreLayoutsD(uniqueLayouts, pageSize)
    /\ pc' = "done"
    /\ UNCHANGED <<loopVars, uiVars, generator, photos, pageSize, sortedPhotos, layouts, uniqueLayouts, descriptors, f64Vars, optVars>>

\* if (!photos || photos.length === 0) return [];
ReturnEmptyS ==
    /\ generator = "strict"
    /\ pc = "start"
    /\ NoPhotos(photos)
    /\ pc' = "done"
    /\ result' = <<>>
    /\ UNCHANGED <<loopVars, uiVars, generator, photos, pageSize, sortedPhotos, layouts, uniqueLayouts, descriptors, f64Vars, optVars>>

\* const sortedPhotos = [...photos].sort(...); spreading a missing list throws
SortS ==
    /\ generator = "strict"
    /\ pc = "start"
    /\ ~NoPhotos(photos)
    /\ IF photos = MissingPhotos
       THEN pc' = "thrown" /\ UNCHANGED sortedPhotos
       ELSE pc' = "sorted" /\ sortedPhotos' = SortPhotos(photos)
    /\ UNCHANGED <<loopVars, uiVars, generator, photos, pageSize, layouts, uniqueLayouts, result, descriptors, f64Vars, optVars>>

BuildS ==
    /\ generator = "strict"
    /\ pc = "sorted"
    /\ layouts' = BuildLayoutsS(sortedPhotos, pageSize)
    /\ pc' = "built"
    /\ UNCHANGED <<loopVars, uiVars, generator, photos, pageSize, sortedPhotos, uniqueLayouts, result, descriptors, f64Vars, optVars>>

DedupS ==
    /\ generator = "strict"
    /\ pc = "built"
    /\ uniqueLayouts' = removeDuplicateLayoutsS(layouts, pageSize)
    /\ pc' = "deduplicated"
    /\ UNCHANGED <<loopVars, uiVars, generator, photos, pageSize, sortedPhotos, layouts, result, descriptors, f64Vars, optVars>>

ScoreStepS ==
    /\ generator = "strict"
    /\ pc = "deduplicated"
    /\ result' = scoreLayoutsS(uniqueLayouts, pageSize)
    /\ pc' = "done"
    /\ UNCHANGED <<loopVars, uiVars, generator, photos, pageSize, sortedPhotos, layouts, uniqueLayouts, descriptors, f64Vars, optVars>>

NextGen ==
    \/ ReturnEmptyD \/ SortD \/ GetDescriptorsD \/ BuildD \/ DedupD \/ ScoreStepD
    \/ ReturnEmptyS \/ SortS \/ BuildS \/ DedupS \/ ScoreStepS

SpecGen == InitGen /\ [][NextGen]_vars

(***************************************************************************)
(* Deduplication and signatures on arbitrary lists of layouts              *)
(***************************************************************************)
\* longest list of layouts handed to removeDuplicateLayouts
MaxLayouts == 3

PoolPhotos == <<Photo(1, <<4, 3>>), Photo(2, <<3, 4>>)>>

\* layouts of two photos as the two generators build them: several share their
\* rectangles and differ in type, name, cell order or bound photos
LayoutPool(page) ==
    { createLayoutFromDescriptor(PoolPhotos, page, createGridDescriptor(1, 2)),
      createLayoutFromDescriptor(PoolPhotos, page, createVerticalSplitDescriptor(1, 1, DefaultSplitRatio)),
      createLayoutFromDescriptor(PoolPhotos, page, createGridDescriptor(2, 1)),
      createOptimizedLayoutD(PoolPhotos,
          createLayoutFromDescriptor(PoolPhotos, page, createGridDescriptor(2, 1)).cells,
          "grid-2x1-optimized"),
      createHStackLayout(PoolPhotos, page, 1, 2, FALSE),
      createHStackLayout(PoolPhotos, page, 2, 1, FALSE) }

RECURSIVE ListsUpTo(_, _)
ListsUpTo(S, n) ==
    IF n = 0 THEN {<<>>}
    ELSE The({ shorter \cup {Append(l, e) : l \in {s \in shorter : Len(s) = n - 1}, e \in S}
               : shorter \in {ListsUpTo(S, n - 1)} })

InitDedup ==
    /\ LoopIdle
    /\ UiIdle
    /\ generator = "none"
    /\ pc = "start"
    /\ photos = PoolPhotos
    /\ pageSize \in {[width |-> 4, height |-> 3], [width |-> 1, height |-> 1]}
    /\ sortedPhotos = <<>>
    /\ descriptors = <<>>
    /\ layouts \in ListsUpTo(LayoutPool(pageSize), MaxLayouts)
    /\ uniqueLayouts = <<>>
    /\ result = <<>>
    /\ F64Idle
    /\ OptIdle

\* removeDuplicateLayouts of the strict generator
RemoveStrict ==
    /\ generator = "none" /\ pc = "start"
    /\ uniqueLayouts' = removeDuplicateLayoutsS(layouts, pageSize)
    /\ pc' = "strict"
    /\ UNCHANGED <<loopVars, uiVars, generator, photos, pageSize, sortedPhotos, layouts, result, descriptors, f64Vars, optVars>>

\* removeDuplicateLayouts of the descriptor-based generator
RemoveLenient ==
    /\ generator = "none" /\ pc = "start"
    /\ uniqueLayouts' = removeDuplicateLayoutsD(layouts, pageSize)
    /\ pc' = "lenient"
    /\ UNCHANGED <<loopVars, uiVars, generator, photos, pageSize, sortedPhotos, layouts, result, descriptors, f64Vars, optVars>>

\* getLayoutSignature of the strict generator, on every layout of the list
SignStrict ==
    /\ generator = "none" /\ pc = "start"
    /\ result' = Tup([i \in 1..Len(layouts) |-> getLayoutSignatureS(layouts[i], pageSize)])
    /\ pc' = "signedStrict"
    /\ UNCHANGED <<loopVars, uiVars, generator, photos, pageSize, sortedPhotos, layouts, uniqueLayouts, descriptors, f64Vars, optVars>>

\* getLayoutSignature of the descriptor-based generator, on every layout of the list
SignLenient ==
    /\ generator = "none" /\ pc = "start"
    /\ result' = Tup([i \in 1..Len(layouts) |-> getLayoutSignatureD(layouts[i], pageSize)])
    /\ pc' = "signedLenient"
    /\ UNCHANGED <<loopVars, uiVars, generator, photos, pageSize, sortedPhotos, layouts, uniqueLayouts, descriptors, f64Vars, optVars>>

NextDedup == RemoveStrict \/ RemoveLenient \/ SignStrict \/ SignLenient

SpecDedup == InitDedup /\ [][NextDedup]_vars

(***************************************************************************)
(* calculateUtilization of the descriptor-based generator, cell by cell     *)
(***************************************************************************)
\* largest number of photos in a cell-by-cell run
MaxPhotosF == 5

\* the layout descriptors for 1..MaxPhotosF photos
DescriptorsF ==
    UNION { {ds[i] : i \in 1..Len(ds)} :
            ds \in {getLayoutDescriptorsForPhotoCount(n) : n \in 1..MaxPhotosF} }

\* cellDesc.width * pageSize.width (and the same for heights)
CellExtentF(fraction, pageExtent) == NMul(fraction, R(pageExtent))

InitF64 ==
    /\ LoopIdle
    /\ UiIdle
    /\ generator = "descriptor"
    /\ pc = "utilization"
    /\ photos = <<>>
    /\ pageSize \in PageSizes
    /\ sortedPhotos = <<>>
    /\ descriptors = <<>>
    /\ layouts = <<>>
    /\ uniqueLayouts = <<>>
    /\ result = <<>>
    /\ layoutDescriptor \in DescriptorsF
    /\ cellIndex = 0
    /\ usedArea = R(0)
    /\ OptIdle

\* layout.cells.forEach(cell => { usedArea += cell.width * cell.height; }), one cell
AddCellAreaF ==
    /\ pc = "utilization"
    /\ cellIndex < Len(layoutDescriptor.cells)
    /\ usedArea' = The({ NAdd(usedArea,
                              NMul(CellExtentF(cellDesc.width, pageSize.width),
                                   CellExtentF(cellDesc.height, pageSize.height)))
                         : cellDesc \in {layoutDescriptor.cells[cellIndex + 1]} })
    /\ cellIndex' = cellIndex + 1
    /\ UNCHANGED <<loopVars, uiVars, generator, pc, callVars, layoutDescriptor, optVars>>

\* return usedArea / totalPageArea;
DivideByPageAreaF ==
    /\ pc = "utilization"
    /\ cellIndex = Len(layoutDescriptor.cells)
    /\ result' = NDiv(usedArea, NMul(R(pageSize.width), R(pageSize.height)))
    /\ pc' = "measured"
    /\ UNCHANGED <<loopVars, uiVars, generator, photos, pageSize, sortedPhotos, layouts, uniqueLayouts, descriptors, f64Vars, optVars>>

NextF64 == AddCellAreaF \/ DivideByPageAreaF

SpecF64 == InitF64 /\ [][NextF64]_vars


(***************************************************************************)
(* The assignment optimizer, step by step: createOptimizedLayout of both   *)
(* generators and the orientation-optimized branches of createHStackLayout, *)
(* createVStackLayout and createMixedRowLayout                              *)
(***************************************************************************)
\* largest photo pool of an optimizer run
MaxPool == 3

\* largest cell list handed to createOptimizedLayout
MaxCellCount == 3

\* photo sizes (width, height) of the pools
PoolSizes == << <<2, 1>>, <<1, 1>>, <<1, 2>>, <<1, 3>> >>

\* every pool of at most MaxPool photos; the photo at position i has id i
Pools ==
    UNION { {Tup([i \in 1..m |-> Photo(i, PoolSizes[f[i]])]) : f \in [1..m -> 1..Len(PoolSizes)]}
            : m \in 0..MaxPool }

\* cell sizes (width, height) of the cell lists
CellSizes == << <<2, 1>>, <<1, 1>>, <<1, 2>>, <<2, 3>>, <<4, 3>> >>

\* origin of the k-th cell created: on a grid two cells wide, row by row or column
\* by column
CellOrigin(k, byColumn) ==
    IF byColumn THEN <<4 * ((k - 1) \div 2), 3 * ((k - 1) % 2)>>
    ELSE <<4 * ((k - 1) % 2), 3 * ((k - 1) \div 2)>>

\* n unbound cells whose sizes run through CellSizes from offset a with stride b
\* (stride 0: cells of one size)
CellList(n, a, b, byColumn) ==
    Tup([k \in 1..n |->
           LET size == CellSizes[((a + (k - 1) * b) % Len(CellSizes)) + 1]
               at == CellOrigin(k, byColumn)
           IN  Cell(Null, R(at[1]), R(at[2]), R(size[1]), R(size[2]))])

CellLists ==
    {CellList(n, a, b, byColumn) : n \in 0..MaxCellCount, a \in 0..(Len(CellSizes) - 1),
                                   b \in 0..1, byColumn \in BOOLEAN}

\* faulty variant of SortByAspectRatio: the cells stay in creation order (C19's
\* formula must notice)
CreationOrder(cs) == cs

\* cells.sort((a, b) => b.aspectRatio - a.aspectRatio)
SortByAspectRatio(cs) ==
    The({SortByKeys(c, Tup([i \in 1..Len(c) |-> DescKey(c[i].aspectRatio)])) : c \in {cs}})

GenIdle ==
    /\ generator = "none"
    /\ sortedPhotos = <<>>
    /\ descriptors = <<>>
    /\ layouts = <<>>
    /\ uniqueLayouts = <<>>
    /\ result = <<>>

InitOpt ==
    /\ LoopIdle
    /\ UiIdle
    /\ GenIdle
    /\ F64Idle
    /\ pc = "called"
    /\ builder \in {"createOptimizedLayoutD", "createOptimizedLayoutS",
                    "createHStackLayout", "createVStackLayout", "createMixedRowLayout"}
    /\ photos \in Pools
    /\ IF builder \in {"createOptimizedLayoutD", "createOptimizedLayoutS"}
       THEN givenCells \in CellLists /\ pageSize = [width |-> 4, height |-> 3]
       ELSE givenCells = <<>> /\ pageSize \in PageSizes
    /\ cellsWithoutPhotos = <<>>
    /\ remainingPhotos = <<>>
    /\ optimizedLayout = Null

\* the head of the loop: the cells sorted by descending aspect ratio, the photos
\* cloned into remainingPhotos, the layout still without cells
StartAssigning(layout, cs) ==
    /\ pc' = "assigning"
    /\ cellsWithoutPhotos' = SortByAspectRatio(cs)
    /\ remainingPhotos' = photos
    /\ optimizedLayout' = layout
    /\ UNCHANGED <<loopVars, uiVars, generator, callVars, f64Vars, builder>>

\* createOptimizedLayout of the descriptor-based generator, down to [...photos]
PrepareOptimizedD ==
    /\ builder = "createOptimizedLayoutD"
    /\ pc = "called"
    /\ UNCHANGED givenCells
    /\ StartAssigning([type |-> "optimized", name |-> "optimized", cells |-> <<>>],
                      Tup([i \in 1..Len(givenCells) |-> WithAspect(givenCells[i])]))

\* createOptimizedLayout of the strict generator, down to [...photos]
PrepareOptimizedS ==
    /\ builder = "createOptimizedLayoutS"
    /\ pc = "called"
    /\ UNCHANGED givenCells
    /\ StartAssigning([type |-> "composite", name |-> "optimized", cells |-> <<>>],
                      Tup([i \in 1..Len(givenCells) |-> OCell(givenCells[i])]))

\* createHStackLayout with optimizeOrientation, down to cells.sort
PrepareHStack ==
    /\ builder = "createHStackLayout"
    /\ pc = "called"
    /\ \E photosPerRow \in 1..Len(photos) :
          /\ Len(photos) % photosPerRow = 0
          /\ \E rows \in {Len(photos) \div photosPerRow} :
                /\ givenCells' = Tup([k \in 1..(rows * photosPerRow) |->
                                   OCell(GridBoxes(pageSize, rows, photosPerRow)[k])])
                /\ StartAssigning([type |-> "hstack", rows |-> rows,
                                   photosPerRow |-> photosPerRow, cells |-> <<>>], givenCells')

\* createVStackLayout with optimizeOrientation, down to cells.sort
PrepareVStack ==
    /\ builder = "createVStackLayout"
    /\ pc = "called"
    /\ \E cols \in 2..MaxColumns(Len(photos)) :
          /\ distributePhotos(Len(photos), cols) # <<>>
          /\ \E photosPerColumn \in {distributePhotos(Len(photos), cols)} :
                /\ givenCells' = Tup([k \in 1..Len(photos) |->
                                   OCell(ColumnBoxes(pageSize, cols, photosPerColumn)[k])])
                /\ StartAssigning([type |-> "vstack", columns |-> cols,
                                   photosPerColumn |-> photosPerColumn,
                                   variableHeights |-> TRUE, cells |-> <<>>], givenCells')

\* createMixedRowLayout with optimizeOrientation, down to cells.sort
PrepareMixedRows ==
    /\ builder = "createMixedRowLayout"
    /\ pc = "called"
    /\ \E d \in 1..Len(MixedRowDistributions(Len(photos))) :
          \E rowDistribution \in {MixedRowDistributions(Len(photos))[d]} :
             /\ givenCells' = Tup([k \in 1..Len(RowBoxes(pageSize, rowDistribution, TRUE)) |->
                                OCell(RowBoxes(pageSize, rowDistribution, TRUE)[k])])
             /\ StartAssigning([type |-> "hstack", rows |-> Len(rowDistribution),
                                rowDistribution |-> rowDistribution, mixedRows |-> TRUE,
                                cells |-> <<>>], givenCells')

\* one round of cells.forEach: the next cell takes the best matching photo of the
\* pool (undefined from an empty pool), the photo is spliced out, the cell pushed.
\* cell.photo = ... writes into the element of the sorted array, and that same object
\* is pushed: the array's element carries the photo from then on
AssignCell ==
    /\ pc = "assigning"
    /\ Len(optimizedLayout.cells) < Len(cellsWithoutPhotos)
    /\ \E index \in {Len(optimizedLayout.cells) + 1} :
          \E bestPhotoIndex \in {findBestMatchingPhotoIndex(remainingPhotos,
                                                            cellsWithoutPhotos[index].aspectRatio)} :
             \E cell \in {[cellsWithoutPhotos[index] EXCEPT
                              !.photo = IF bestPhotoIndex <= Len(remainingPhotos)
                                        THEN remainingPhotos[bestPhotoIndex]
                                        ELSE Null]} :
                /\ cellsWithoutPhotos' = [cellsWithoutPhotos EXCEPT ![index] = cell]
                /\ remainingPhotos' = IF bestPhotoIndex <= Len(remainingPhotos)
                                      THEN Remove(remainingPhotos, bestPhotoIndex)
                                      ELSE remainingPhotos
                /\ optimizedLayout' = [optimizedLayout EXCEPT !.cells = Append(@, cell)]
    /\ UNCHANGED <<loopVars, uiVars, generator, pc, callVars, f64Vars, builder, givenCells>>

\* the trailing position sort by y then x, and the return
SortByRowAndReturn ==
    /\ pc = "assigning"
    /\ builder # "createVStackLayout"
    /\ Len(optimizedLayout.cells) = Len(cellsWithoutPhotos)
    /\ optimizedLayout' = [optimizedLayout EXCEPT !.cells = SortCellsYX(@)]
    /\ pc' = "returned"
    /\ UNCHANGED <<loopVars, uiVars, generator, callVars, f64Vars, builder, givenCells, cellsWithoutPhotos, remainingPhotos>>

\* createVStackLayout's trailing position sort by x then y, and the return
SortByColumnAndReturn ==
    /\ pc = "assigning"
    /\ builder = "createVStackLayout"
    /\ Len(optimizedLayout.cells) = Len(cellsWithoutPhotos)
    /\ optimizedLayout' = [optimizedLayout EXCEPT !.cells = SortCellsXY(@)]
    /\ pc' = "returned"
    /\ UNCHANGED <<loopVars, uiVars, generator, callVars, f64Vars, builder, givenCells, cellsWithoutPhotos, remainingPhotos>>

NextOpt ==
    \/ PrepareOptimizedD \/ PrepareOptimizedS \/ PrepareHStack \/ PrepareVStack
    \/ PrepareMixedRows \/ AssignCell \/ SortByRowAndReturn \/ SortByColumnAndReturn

SpecOpt == InitOpt /\ [][NextOpt]_vars

(***************************************************************************)
(* createLayoutFromDescriptor on any descriptor and any list of photos     *)
(***************************************************************************)
InitInst ==
    /\ LoopIdle
    /\ UiIdle
    /\ GenIdle
    /\ OptIdle
    /\ pc = "called"
    /\ photos \in PhotoLists
    /\ pageSize \in PageSizes
    /\ layoutDescriptor \in DescriptorsF
    /\ cellIndex = 0
    /\ usedArea = R(0)

\* createLayoutFromDescriptor(photos, pageSize, descriptor)
InstantiateDescriptor ==
    /\ pc = "called"
    /\ result' = createLayoutFromDescriptor(photos, pageSize, layoutDescriptor)
    /\ pc' = "instantiated"
    /\ UNCHANGED <<loopVars, uiVars, generator, photos, pageSize, sortedPhotos, descriptors, layouts, uniqueLayouts,
                   f64Vars, optVars>>

NextInst == InstantiateDescriptor

SpecInst == InitInst /\ [][NextInst]_vars
(***************************************************************************)
(* The two calculateCroppingRate implementations on one layout             *)
(***************************************************************************)
\* largest number of photos in a comparison of the cropping rates
MaxPhotosC == 3

\* the layout descriptors for 1..MaxPhotosC photos
DescriptorsC ==
    UNION { {ds[i] : i \in 1..Len(ds)} :
            ds \in {getLayoutDescriptorsForPhotoCount(n) : n \in 1..MaxPhotosC} }

\* a descriptor, a page and one photo for each cell of the descriptor
InitCrop ==
    /\ LoopIdle
    /\ UiIdle
    /\ GenIdle
    /\ OptIdle
    /\ pc = "cropping"
    /\ pageSize \in PageSizes
    /\ layoutDescriptor \in DescriptorsC
    /\ photos \in {ps \in PhotoLists : Len(ps) = Len(layoutDescriptor.cells)}
    /\ cellIndex = 0
    /\ usedArea = R(0)

\* both calculateCroppingRate functions applied to the layout of the descriptor
MeasureCroppingRates ==
    /\ pc = "cropping"
    /\ result' = The({ [layout |-> layout,
                         geometric |-> calculateCroppingRateD(layout),
                         aspectDifference |-> calculateCroppingRateS(layout)]
                       : layout \in {createLayoutFromDescriptor(photos, pageSize, layoutDescriptor)} })
    /\ pc' = "compared"
    /\ UNCHANGED <<loopVars, uiVars, generator, photos, pageSize, sortedPhotos, descriptors, layouts, uniqueLayouts,
                   f64Vars, optVars>>

NextCrop == MeasureCroppingRates

SpecCrop == InitCrop /\ [][NextCrop]_vars

(***************************************************************************)
(* generateComplexLayouts, its forEach loop one element at a time          *)
(***************************************************************************)
\* the hard-coded layouts generateComplexLayouts pushes for n photos
ComplexTemplates(n) ==
    IF n = 7 THEN ComplexTemplates7
    ELSE IF n = 8 THEN ComplexTemplates8
    ELSE IF n = 9 THEN ComplexTemplates9
    ELSE <<>>

\* faulty variant of ForEachBound: the loop runs to the current length of the array,
\* as for (let i = 0; i < layouts.length; i++) does (C28's formula must notice)
CurrentLength(lengthAtCall, currentLength) == currentLength

\* Array.prototype.forEach reads the length once, before the first callback, and
\* visits the indexes below it
ForEachBound(lengthAtCall, currentLength) == lengthAtCall

InitComplex ==
    /\ LoopIdle
    /\ UiIdle
    /\ F64Idle
    /\ OptIdle
    /\ generator = "none"
    /\ pc = "complex"
    /\ photos \in PhotoLists
    /\ pageSize \in PageSizes
    /\ sortedPhotos = SortPhotos(photos)
    /\ descriptors = <<>>
    /\ layouts = <<>>
    /\ uniqueLayouts = <<>>
    /\ result = <<>>

\* photoCount is 7, 8 or 9: the hard-coded layouts are pushed and layouts.forEach is
\* called
PushTemplates ==
    /\ pc = "complex"
    /\ Len(sortedPhotos) \in {7, 8, 9}
    /\ layouts' = FromTemplates(sortedPhotos, pageSize, ComplexTemplates(Len(sortedPhotos)))
    /\ forEachLength' = Len(layouts')
    /\ forEachIndex' = 0
    /\ pc' = "forEach"
    /\ UNCHANGED <<uiVars, generator, photos, pageSize, sortedPhotos, descriptors, uniqueLayouts, result,
                   f64Vars, optVars>>

\* any other photoCount: return layouts, which is empty
ReturnNoLayouts ==
    /\ pc = "complex"
    /\ Len(sortedPhotos) \notin {7, 8, 9}
    /\ result' = layouts
    /\ pc' = "returned"
    /\ UNCHANGED <<loopVars, uiVars, generator, photos, pageSize, sortedPhotos, descriptors, layouts,
                   uniqueLayouts, f64Vars, optVars>>

\* one callback of forEach:
\* layouts.push(createOptimizedLayout(photos, [...layout.cells], `${layout.name}-optimized`))
VisitLayout ==
    /\ pc = "forEach"
    /\ forEachIndex < ForEachBound(forEachLength, Len(layouts))
    /\ layouts' = The({ Append(layouts,
                               createOptimizedLayoutS(sortedPhotos, layout.cells,
                                                      layout.name \o "-optimized"))
                        : layout \in {layouts[forEachIndex + 1]} })
    /\ forEachIndex' = forEachIndex + 1
    /\ UNCHANGED <<uiVars, generator, pc, photos, pageSize, sortedPhotos, descriptors, uniqueLayouts, result,
                   forEachLength, f64Vars, optVars>>

\* forEach has visited every index below its bound: return layouts
ReturnLayouts ==
    /\ pc = "forEach"
    /\ forEachIndex >= ForEachBound(forEachLength, Len(layouts))
    /\ result' = layouts
    /\ pc' = "returned"
    /\ UNCHANGED <<loopVars, uiVars, generator, photos, pageSize, sortedPhotos, descriptors, layouts,
                   uniqueLayouts, f64Vars, optVars>>

NextComplex == PushTemplates \/ ReturnNoLayouts \/ VisitLayout \/ ReturnLayouts

SpecComplex == InitComplex /\ [][NextComplex]_vars

(***************************************************************************)
(* App and PhotoUploader: file selections whose images load asynchronously,*)
(* photo removals and page-size changes                                    *)
(***************************************************************************)
\* largest number of files picked in a run; the files are numbered as they are picked
MaxFiles == 2

\* useState({ width: 800, height: 1000 })
InitialPageSize == [width |-> 800, height |-> 1000]

\* the values typed into a page-size input
PageExtents == {800, 1000}

\* the photo handleFileChange resolves for a file once its image has loaded: a fresh
\* id and the image's width and height
LoadedPhoto(file) == Photo(file, PhotoSizes[((file - 1) % Len(PhotoSizes)) + 1])

\* Array.from(event.target.files) when count files are picked
FileList(count) == Tup([k \in 1..count |-> pickedFiles + k])

\* array.filter((_, index) => index !== photoIndex), photoIndex counted from 0
WithoutIndex(s, photoIndex) ==
    Concat(Tup([i \in 1..Len(s) |-> IF i - 1 # photoIndex THEN <<s[i]>> ELSE <<>>]))

\* the layouts handlePhotosUploaded and handlePageSizeChange hand to setLayouts
GeneratedLayouts(ps, page) == generateLayoutsD(SortPhotos(ps), page)

\* the state after the first render of App
InitApp ==
    /\ LoopIdle
    /\ F64Idle
    /\ OptIdle
    /\ generator = "descriptor"
    /\ pc = "rendered"
    /\ photos = <<>>
    /\ pageSize = InitialPageSize
    /\ layouts = <<>>
    /\ sortedPhotos = <<>>
    /\ descriptors = <<>>
    /\ uniqueLayouts = <<>>
    /\ result = <<>>
    /\ uploaderPhotos = <<>>
    /\ selectedFiles = <<>>
    /\ loading = {}
    /\ pickedFiles = 0

\* handleFileChange down to its await: the files are appended to selectedFiles and
\* their images start loading.  The suspended call keeps what its closure holds: the
\* photos state of the render in which the event fired, and that render's
\* onPhotosUploaded, which is App's handlePhotosUploaded with that render's pageSize
SelectFiles ==
    /\ pc = "rendered"
    /\ \E count \in 1..(MaxFiles - pickedFiles) :
          /\ selectedFiles' = selectedFiles \o FileList(count)
          /\ loading' = loading \cup {[files |-> FileList(count), photos |-> uploaderPhotos,
                                       pageSize |-> pageSize]}
          /\ pickedFiles' = pickedFiles + count
    /\ UNCHANGED <<loopVars, generator, pc, callVars, f64Vars, optVars, uploaderPhotos>>

\* the images of one selection have loaded: handleFileChange resumes after its await,
\* setPhotos(updatedPhotos), onPhotosUploaded(updatedPhotos), and the
\* existingPhotos effect of the next render
ImagesLoaded ==
    /\ pc = "rendered"
    /\ \E call \in loading :
          LET loadedPhotos == Tup([i \in 1..Len(call.files) |-> LoadedPhoto(call.files[i])])
              updatedPhotos == call.photos \o loadedPhotos
          IN  /\ loading' = loading \ {call}
              /\ uploaderPhotos' = updatedPhotos
              /\ photos' = updatedPhotos
              /\ layouts' = GeneratedLayouts(updatedPhotos, call.pageSize)
    /\ UNCHANGED <<loopVars, generator, pc, pageSize, sortedPhotos, descriptors, uniqueLayouts, result,
                   f64Vars, optVars, selectedFiles, pickedFiles>>

\* removePhoto(photoIndex), from the thumbnails of the current render
RemovePhoto ==
    /\ pc = "rendered"
    /\ \E photoIndex \in 0..(Len(uploaderPhotos) - 1) :
          LET updatedPhotos == WithoutIndex(uploaderPhotos, photoIndex)
          IN  /\ uploaderPhotos' = updatedPhotos
              /\ selectedFiles' = WithoutIndex(selectedFiles, photoIndex)
              /\ photos' = updatedPhotos
              /\ layouts' = GeneratedLayouts(updatedPhotos, pageSize)
    /\ UNCHANGED <<loopVars, generator, pc, pageSize, sortedPhotos, descriptors, uniqueLayouts, result,
                   f64Vars, optVars, loading, pickedFiles>>

\* handlePageSizeChange(newSize)
HandlePageSizeChange(newSize) ==
    /\ pc = "rendered"
    /\ pageSize' = newSize
    /\ layouts' = IF Len(photos) > 0 THEN GeneratedLayouts(photos, newSize) ELSE layouts
    /\ UNCHANGED <<loopVars, uiVars, generator, pc, photos, sortedPhotos, descriptors, uniqueLayouts, result,
                   f64Vars, optVars>>

\* onChange of the width input: handlePageSizeChange({...pageSize, width: parseInt(value)})
ChangePageWidth ==
    \E value \in PageExtents \ {pageSize.width} :
        HandlePageSizeChange([pageSize EXCEPT !.width = value])

\* onChange of the height input
ChangePageHeight ==
    \E value \in PageExtents \ {pageSize.height} :
        HandlePageSizeChange([pageSize EXCEPT !.height = value])

NextApp == SelectFiles \/ ImagesLoaded \/ RemovePhoto \/ ChangePageWidth \/ ChangePageHeight

SpecApp == InitApp /\ [][NextApp]_vars
(***************************************************************************)
(* Properties                                                              *)
(***************************************************************************)
\* the rectangle of a cell
Rect(c) == <<c.x, c.y, c.width, c.height>>

Rects(layout) == {Rect(layout.cells[i]) : i \in 1..Len(layout.cells)}

\* what rounding may add to or take from a coordinate or a rate
RoundingTolerance == NDiv(Frac(1, 10 ^ 6), R(10 ^ 6))

\* equal up to rounding
Near(a, b) == NLe(NAbs(NSub(a, b)), RoundingTolerance)

NearRect(r, e) == \A k \in 1..4 : Near(r[k], e[k])

\* up to rounding the cells of the layout are the rectangles of the set expected
HasRects(layout, expected) ==
    /\ \A i \in 1..Len(layout.cells) : \E e \in expected : NearRect(Rect(layout.cells[i]), e)
    /\ \A e \in expected : \E i \in 1..Len(layout.cells) : NearRect(Rect(layout.cells[i]), e)

\* equal sets of cell rectangles
SameGeometry(l1, l2) == Rects(l1) = Rects(l2)

\* duplicateOf absent or null
Unflagged(layout) == "duplicateOf" \notin DOMAIN layout \/ layout.duplicateOf = NoDuplicate

\* a call that got at least one photo
SomePhotos == photos # MissingPhotos /\ photos # <<>>

\* C1: for a non-empty photo list (and a page with positive sides) the returned
\* sequence is non-increasing in score: each candidate's score is >= the score of
\* the candidate after it.
C1_RankedByScore ==
    pc = "done" /\ SomePhotos /\ PositivePage(pageSize)
    => \A i \in 1..(Len(result) - 1) : NGe(result[i].score, result[i + 1].score)

\* C2: strict deduplication keeps, of the layouts of the input list that share a
\* signature, exactly the first one, and keeps the kept layouts in input order:
\* the k-th output layout is the input layout at the k-th smallest index that is
\* the first of its signature.
C2_StrictDedupKeepsFirsts ==
    pc = "strict"
    => The({ The({ /\ Len(uniqueLayouts) = Cardinality(firsts)
                   /\ \A k \in 1..Len(uniqueLayouts) :
                         \E i \in firsts :
                            /\ Cardinality({j \in firsts : j <= i}) = k
                            /\ uniqueLayouts[k] = layouts[i]
                   : firsts \in {{i \in 1..Len(layouts) : \A j \in 1..(i - 1) : sig[j] # sig[i]}} })
             : sig \in {Tup([i \in 1..Len(layouts) |-> getLayoutSignatureS(layouts[i], pageSize)])} })

\* C2 happens: a list of three layouts of which one is dropped as a duplicate
C2_DuplicateDropped ==
    pc = "strict" /\ Len(layouts) = 3 /\ Len(uniqueLayouts) = 2

\* C3: getLayoutSignature depends only on cell geometry: two layouts of the list
\* with equal sets of cell rectangles get equal signatures, whatever their type,
\* name or bound photos (stated for the descriptor-based generator's signature).
C3_SignatureOfGeometryOnly ==
    pc = "signedLenient"
    => \A i, j \in 1..Len(layouts) :
          SameGeometry(layouts[i], layouts[j]) => result[i] = result[j]

\* C4: generateLayouts never returns two candidates that are both unflagged and
\* have identical cell geometry.
C4_NoUnflaggedTwins ==
    pc = "done" /\ SomePhotos /\ PositivePage(pageSize)
    => \A i, j \in 1..Len(result) :
          i < j /\ Unflagged(result[i]) /\ Unflagged(result[j])
          => ~SameGeometry(result[i], result[j])

\* C6: a call with an empty or missing photo list never throws and returns the
\* empty sequence, for every page size.
C6_NoPhotosEmptyResult ==
    (photos = MissingPhotos \/ photos = <<>>)
    => /\ pc \in {"start", "done"}
       /\ pc = "done" => result = <<>>

\* C6 happens: a call with a missing photo list has returned, on a degenerate page
C6_MissingPhotosReturned ==
    pc = "done" /\ photos = MissingPhotos /\ ~PositivePage(pageSize)

\* C7: a call with a non-empty photo list and a page whose width or height is
\* not positive returns an empty result.
C7_DegeneratePageEmptyResult ==
    pc = "done" /\ SomePhotos /\ ~PositivePage(pageSize) => result = <<>>

\* C8: on n >= 1 photos every returned candidate has at most n cells and at least
\* one returned candidate has exactly n cells.
C8_CellCounts ==
    pc = "done" /\ SomePhotos
    => /\ \A i \in 1..Len(result) : Len(result[i].cells) <= Len(photos)
       /\ \E i \in 1..Len(result) : Len(result[i].cells) = Len(photos)

\* C8 happens: a call on five photos returned more than ten candidates
C8_FivePhotosReturned ==
    pc = "done" /\ SomePhotos /\ Len(photos) = 5 /\ Len(result) > 10

\* C9: every candidate's utilization is between 0 and 1 inclusive (stated for the
\* value calculateUtilization of the descriptor-based generator returns, on pages
\* with positive sides).
C9_UtilizationWithinUnit ==
    pc = "measured" => NLe(R(0), result) /\ NLe(result, R(1))

\* C10: for photos and pages with positive sides every returned candidate's
\* croppingRate is between 0 and 1 inclusive.
C10_CroppingRateWithinUnit ==
    pc = "done" /\ SomePhotos /\ PositivePage(pageSize)
    => \A i \in 1..Len(result) :
          /\ NLe(R(0), result[i].metrics.croppingRate)
          /\ NLe(result[i].metrics.croppingRate, R(1))

\* C10 happens: a returned candidate crops more than half of its photos' area
\* and another crops nothing
C10_CroppingSpread ==
    /\ pc = "done" /\ SomePhotos /\ PositivePage(pageSize)
    /\ \E i \in 1..Len(result) : NGt(result[i].metrics.croppingRate, Frac(1, 2))
    /\ \E i \in 1..Len(result) : NEq(result[i].metrics.croppingRate, R(0))


\* the canonical weighting of the three metrics of a scored candidate
CanonicalScore(metrics) ==
    NAdd(NAdd(NMul(metrics.utilization, Frac(4, 10)),
              NMul(NSub(R(1), metrics.croppingRate), Frac(4, 10))),
         NMul(metrics.sizeBalance, Frac(2, 10)))

FiniteMetrics(metrics) ==
    IsFinite(metrics.utilization) /\ IsFinite(metrics.croppingRate) /\ IsFinite(metrics.sizeBalance)

\* C11: every scored candidate's score equals utilization*0.4 + (1 - croppingRate)*0.4
\* + sizeBalance*0.2, computed from the utilization, croppingRate and sizeBalance
\* stored in its metrics (stated for candidates whose three metrics are finite).
C11_CanonicalWeights ==
    pc = "done"
    => \A i \in 1..Len(result) :
          FiniteMetrics(result[i].metrics)
          => result[i].score = CanonicalScore(result[i].metrics)

\* a call with one photo whose aspect ratio is the page's, on a positive page
SinglePhotoOfPageShape ==
    /\ SomePhotos /\ Len(photos) = 1 /\ PositivePage(pageSize)
    /\ photos[1].width * pageSize.height = photos[1].height * pageSize.width

\* the rectangle of the whole page
PageRect(page) == <<R(0), R(0), R(page.width), R(page.height)>>

\* C12: for a single photo whose aspect ratio equals the page's, generateLayouts
\* returns exactly one candidate: one cell that is the whole page, with utilization 1
\* and croppingRate 0.
C12_SinglePhotoOneCandidate ==
    pc = "done" /\ SinglePhotoOfPageShape
    => /\ Len(result) = 1
       /\ Len(result[1].cells) = 1
       /\ NearRect(Rect(result[1].cells[1]), PageRect(pageSize))
       /\ result[1].metrics.utilization = R(1)
       /\ result[1].metrics.croppingRate = R(0)

\* every photo of the call has the page's aspect ratio
PhotosOfPageShape ==
    \A i \in 1..Len(photos) : photos[i].width * pageSize.height = photos[i].height * pageSize.width

\* the cell rectangles of the uniform grid of rows x cols cells on the page
UniformGrid(page, rows, cols) ==
    { <<Frac(c * page.width, cols), Frac(r * page.height, rows),
        Frac(page.width, cols), Frac(page.height, rows)>> : r \in 0..(rows - 1), c \in 0..(cols - 1) }

\* C13: for four photos that all have the page's aspect ratio the result of
\* generateLayouts contains the uniform 2x2 grid, with utilization 1 and
\* croppingRate 0.  (Violated: photo.width / photo.height is rounded, and on a 29x28
\* page with 29x28 photos calculateCroppingRate of the descriptor-based generator
\* scales 14 by it to 14.500000000000002, which leaves a croppingRate of 1.2e-16.)
C13_FourPhotosUniformGrid ==
    pc = "done" /\ SomePhotos /\ Len(photos) = 4 /\ PositivePage(pageSize) /\ PhotosOfPageShape
    => \E i \in 1..Len(result) :
          /\ Len(result[i].cells) = 4
          /\ HasRects(result[i], UniformGrid(pageSize, 2, 2))
          /\ result[i].metrics.utilization = R(1)
          /\ result[i].metrics.croppingRate = R(0)

\* the cell rectangles of two stacked rows of half the page's height, with top cells
\* in the upper row and bottom cells in the lower one
TwoRows(page, top, bottom) ==
    { <<Frac(c * page.width, top), R(0), Frac(page.width, top), Frac(page.height, 2)>>
      : c \in 0..(top - 1) }
    \cup { <<Frac(c * page.width, bottom), Frac(page.height, 2),
             Frac(page.width, bottom), Frac(page.height, 2)>> : c \in 0..(bottom - 1) }

\* which photo sits in which rectangle
Binding(layout) == {<<Rect(layout.cells[i]), layout.cells[i].photo>> : i \in 1..Len(layout.cells)}

\* the photos of the upper row
TopRowPhotos(layout) ==
    {layout.cells[i].photo : i \in {k \in 1..Len(layout.cells) : NEq(layout.cells[k].y, R(0))}}

FivePhotos == SomePhotos /\ Len(photos) = 5 /\ PositivePage(pageSize)

\* C14: for five photos the two-row layouts with row counts [2,3] and [3,2] are both
\* among the returned candidates; they bind different photos to positions; their
\* strict signatures differ from each other and from the signatures of the 1x5 and
\* 5x1 grids.
C14_FivePhotosTwoRowLayouts ==
    pc = "done" /\ FivePhotos
    => \E a, b \in 1..Len(result) :
          /\ HasRects(result[a], TwoRows(pageSize, 2, 3))
          /\ HasRects(result[b], TwoRows(pageSize, 3, 2))
          /\ Binding(result[a]) # Binding(result[b])
          /\ TopRowPhotos(result[a]) # TopRowPhotos(result[b])
          /\ getLayoutSignatureS(result[a], pageSize) # getLayoutSignatureS(result[b], pageSize)
          /\ \A g \in 1..Len(result) :
                (HasRects(result[g], UniformGrid(pageSize, 1, 5))
                 \/ HasRects(result[g], UniformGrid(pageSize, 5, 1)))
                => /\ getLayoutSignatureS(result[g], pageSize) # getLayoutSignatureS(result[a], pageSize)
                   /\ getLayoutSignatureS(result[g], pageSize) # getLayoutSignatureS(result[b], pageSize)

\* C14 happens: a call with five photos has returned the 1x5 grid, the 5x1 grid and
\* a two-row layout with row counts [3,2]
C14_FivePhotosReturned ==
    /\ pc = "done" /\ FivePhotos
    /\ \E g, h, b \in 1..Len(result) :
          /\ HasRects(result[g], UniformGrid(pageSize, 1, 5))
          /\ HasRects(result[h], UniformGrid(pageSize, 5, 1))
          /\ HasRects(result[b], TwoRows(pageSize, 3, 2))

\* a run of createOptimizedLayout (of either generator) has returned
OptimizedReturned ==
    pc = "returned" /\ builder \in {"createOptimizedLayoutD", "createOptimizedLayoutS"}

CellAspectRatio(c) == NDiv(c.width, c.height)

\* the photos and the cells have the same aspect ratios, counted with multiplicity
SameAspectRatios(ps, cs) ==
    /\ Len(ps) = Len(cs)
    /\ \A i \in 1..Len(ps) :
          Cardinality({j \in 1..Len(ps) : AspectRatio(ps[j]) = AspectRatio(ps[i])})
          = Cardinality({j \in 1..Len(cs) : CellAspectRatio(cs[j]) = AspectRatio(ps[i])})

\* C15: whenever the multiset of photo aspect ratios equals the multiset of cell
\* aspect ratios, createOptimizedLayout binds every cell to a photo whose aspect
\* ratio is exactly the cell's, whatever the order of the photos in the pool.
C15_ExactMatchesBound ==
    OptimizedReturned /\ SameAspectRatios(photos, givenCells)
    => \A i \in 1..Len(optimizedLayout.cells) :
          /\ optimizedLayout.cells[i].photo # Null
          /\ AspectRatio(optimizedLayout.cells[i].photo) = CellAspectRatio(optimizedLayout.cells[i])

\* C15 happens: cells of aspect ratios 2, 1, 0.5 were filled from a pool of photos of
\* aspect ratios 0.5, 2, 1
C15_ShuffledPoolReturned ==
    /\ OptimizedReturned
    /\ Len(photos) = 3 /\ Len(givenCells) = 3
    /\ Tup([i \in 1..3 |-> AspectRatio(photos[i])]) = <<Frac(1, 2), R(2), R(1)>>
    /\ Tup([i \in 1..3 |-> CellAspectRatio(givenCells[i])]) = <<R(2), R(1), Frac(1, 2)>>

\* every cell of the layout holds a photo and every photo of ps sits in exactly one
\* cell
OneToOne(layout, ps) ==
    /\ \A i \in 1..Len(layout.cells) : layout.cells[i].photo # Null
    /\ \A p \in 1..Len(ps) :
          Cardinality({i \in 1..Len(layout.cells) : layout.cells[i].photo = ps[p]}) = 1

\* C16: given m cells and a pool of m photos, createOptimizedLayout returns m cells,
\* every cell bound to a photo and every photo of the pool bound to exactly one cell,
\* and no step of the call changes the caller's photo list.
C16_OneToOneAssignment ==
    /\ [](OptimizedReturned /\ Len(photos) = Len(givenCells)
          => /\ Len(optimizedLayout.cells) = Len(givenCells)
             /\ Rects(optimizedLayout) = {Rect(givenCells[i]) : i \in 1..Len(givenCells)}
             /\ OneToOne(optimizedLayout, photos))
    /\ [][photos' = photos]_vars

\* C16 happens: three cells were filled from a pool of three photos; the clone of
\* the pool is used up and the caller's list still holds its three photos
C16_ThreeCellsFilled ==
    /\ OptimizedReturned
    /\ Len(givenCells) = 3 /\ Len(photos) = 3 /\ remainingPhotos = <<>>
    /\ \E i, j \in 1..3 : AspectRatio(photos[i]) # AspectRatio(photos[j])

\* |photo aspect ratio - target|, of the program's numbers: Math.abs(photo.width /
\* photo.height - target)
Mismatch(photo, target) == NAbs(NSub(AspectRatio(photo), target))

\* the lowest index among the photos of a non-empty pool whose mismatch is minimal
LowestBest(pool, target) ==
    The({ CHOOSE i \in 1..Len(pool) :
             /\ \A j \in 1..Len(pool) : NLe(mismatch[i], mismatch[j])
             /\ \A j \in 1..(i - 1) : NGt(mismatch[j], mismatch[i])
          : mismatch \in {Tup([j \in 1..Len(pool) |-> Mismatch(pool[j], target)])} })

\* the caller's photos without those bound to the first k served cells, in order
PoolAfter(k) ==
    LET free(p) == \A i \in 1..k : optimizedLayout.cells[i].photo # p
    IN  SelectSeq(photos, free)

\* C19: greedy step of the optimizer: for a non-empty pool findBestMatchingPhotoIndex
\* returns the lowest index among the photos whose |photo aspect ratio - target| is
\* minimal over the pool; the cells are served in descending aspect-ratio order; the
\* chosen photo is removed from the pool before the next cell is served (so every
\* served cell holds the best match of the photos no earlier cell took).  The
\* differences compared are the numbers the program computes, Math.abs(photo.width /
\* photo.height - target) in binary64: two photos equally far from the target as
\* fractions may differ in the last bit, and the smaller number wins.
C19_GreedyStep ==
    pc = "assigning"
    => LET served == optimizedLayout.cells
       IN  /\ \A c \in 1..Len(cellsWithoutPhotos) :
                 remainingPhotos # <<>>
                 => findBestMatchingPhotoIndex(remainingPhotos, cellsWithoutPhotos[c].aspectRatio)
                    = LowestBest(remainingPhotos, cellsWithoutPhotos[c].aspectRatio)
           /\ {Rect(cellsWithoutPhotos[c]) : c \in 1..Len(cellsWithoutPhotos)}
              = {Rect(givenCells[c]) : c \in 1..Len(givenCells)}
           /\ \A c, d \in 1..Len(cellsWithoutPhotos) :
                 c < d => NGe(cellsWithoutPhotos[c].aspectRatio, cellsWithoutPhotos[d].aspectRatio)
           /\ \A k \in 1..Len(served) :
                 /\ Rect(served[k]) = Rect(cellsWithoutPhotos[k])
                 /\ \A pool \in {PoolAfter(k - 1)} :
                       served[k].photo = IF pool = <<>> THEN Null
                                         ELSE pool[LowestBest(pool, served[k].aspectRatio)]
           /\ remainingPhotos = PoolAfter(Len(served))

\* C19 happens: two of three cells are served.  The first one (aspect ratio 1) chose
\* between two photos of aspect ratio 1 and took the one with the lower index.  The
\* second one (2 / 3) chose between a 1x1 photo and a 1x3 photo, which are equally
\* far from two thirds; of the program's numbers, 1 - 0.6666666666666666 is above
\* 0.6666666666666666 - 0.3333333333333333, so it took the later photo
C19_TieBrokenByIndex ==
    /\ pc = "assigning"
    /\ Len(photos) = 3 /\ Len(cellsWithoutPhotos) = 3 /\ Len(optimizedLayout.cells) = 2
    /\ AspectRatio(photos[1]) = R(1) /\ AspectRatio(photos[2]) = R(1)
    /\ AspectRatio(photos[3]) = Frac(1, 3)
    /\ cellsWithoutPhotos[1].aspectRatio = R(1)
    /\ cellsWithoutPhotos[2].aspectRatio = Frac(2, 3)
    /\ optimizedLayout.cells[1].photo = photos[1]
    /\ optimizedLayout.cells[2].photo = photos[3]
    /\ NGt(Mismatch(photos[2], Frac(2, 3)), Mismatch(photos[3], Frac(2, 3)))
    /\ remainingPhotos = <<photos[2]>>

\* the cells are listed by y ascending and, for equal y, by x ascending
SortedByRow(cs) ==
    \A i, j \in 1..Len(cs) :
       i < j => \/ NLt(cs[i].y, cs[j].y)
                \/ cs[i].y = cs[j].y /\ NLe(cs[i].x, cs[j].x)

\* C20: every layout built with optimized assignment (optimized grid, optimized
\* column stack, optimized mixed rows, optimized composite) lists its cells sorted by
\* y ascending and, for equal y, by x ascending.
C20_OptimizedCellsByRow ==
    pc = "returned" => SortedByRow(optimizedLayout.cells)

\* the output layout is the input layout with the field duplicateOf added
SameButFlag(out, in) ==
    /\ DOMAIN out = DOMAIN in \cup {"duplicateOf"}
    /\ \A f \in DOMAIN in : out[f] = in[f]

\* position (counted from 1) in layouts of the first layout with the signature of
\* layouts[i]; the program's index of that layout is one less
FirstOccurrence(i) ==
    CHOOSE j \in 1..i :
       /\ getLayoutSignatureD(layouts[j], pageSize) = getLayoutSignatureD(layouts[i], pageSize)
       /\ \A k \in 1..(j - 1) :
             getLayoutSignatureD(layouts[k], pageSize) # getLayoutSignatureD(layouts[i], pageSize)

\* lenient deduplication keeps every layout, in order, and flags the first layout
\* of each signature with null
KeepsAllFlagsFirsts ==
    /\ Len(uniqueLayouts) = Len(layouts)
    /\ \A i \in 1..Len(layouts) :
          /\ SameButFlag(uniqueLayouts[i], layouts[i])
          /\ FirstOccurrence(i) = i => uniqueLayouts[i].duplicateOf = NoDuplicate

\* C17 as stated: lenient deduplication keeps every input layout in generation
\* order, sets duplicateOf to null on the first layout of each signature, and sets
\* duplicateOf on every later layout with that signature to the index of that first
\* occurrence in the list (the index as the program counts it, from 0).
C17_DuplicateOfIsIndex ==
    pc = "lenient"
    => /\ KeepsAllFlagsFirsts
       /\ \A i \in 1..Len(layouts) :
             FirstOccurrence(i) # i => uniqueLayouts[i].duplicateOf = FirstOccurrence(i) - 1

\* C17 amended: as above, but duplicateOf on a later layout is the index of the first
\* occurrence plus one, its position counted from 1.
C17_DuplicateOfIsPosition ==
    pc = "lenient"
    => /\ KeepsAllFlagsFirsts
       /\ \A i \in 1..Len(layouts) :
             FirstOccurrence(i) # i => uniqueLayouts[i].duplicateOf = (FirstOccurrence(i) - 1) + 1

\* C17 happens: of three layouts the third repeats the signature of the second and
\* the second is no duplicate
C17_ThirdRepeatsSecond ==
    /\ pc = "lenient" /\ Len(layouts) = 3
    /\ uniqueLayouts[2].duplicateOf = NoDuplicate
    /\ uniqueLayouts[3].duplicateOf = 2

\* C18: for every n >= 1, every descriptor returned by
\* getLayoutDescriptorsForPhotoCount(n) has cells whose photoIndex values are exactly
\* the set {0, ..., n-1}, each value occurring once.
C18_PhotoIndexesExact ==
    generator = "descriptor" /\ pc \notin {"start", "sorted", "thrown"} /\ SomePhotos
    => /\ descriptors # <<>>
       /\ \A d \in 1..Len(descriptors) :
             /\ Len(descriptors[d].cells) = Len(photos)
             /\ {descriptors[d].cells[c].photoIndex : c \in 1..Len(descriptors[d].cells)}
                = 0..(Len(photos) - 1)

\* C18 happens: the descriptors for seven photos, with the two hand-written ones and
\* the splits, have been returned
C18_SevenPhotosDescribed ==
    /\ generator = "descriptor" /\ pc = "described" /\ Len(photos) = 7
    /\ \E d, e \in 1..Len(descriptors) :
          descriptors[d].type = "composite" /\ descriptors[e].type = "split"

\* the descriptor cells whose photoIndex is less than photos.length
KeptCells == {i \in 1..Len(layoutDescriptor.cells) : layoutDescriptor.cells[i].photoIndex < Len(photos)}

\* the k-th of them, in the descriptor's order
KeptCell(k) == CHOOSE i \in KeptCells : Cardinality({j \in KeptCells : j <= i}) = k

\* C21: createLayoutFromDescriptor: a descriptor cell appears in the candidate if and
\* only if its photoIndex is less than photos.length; every kept cell has x, y, width
\* and height equal to the descriptor's normalized values times the page width or
\* height and is bound to photos[photoIndex]; the kept cells keep the descriptor's
\* order.
C21_SequentialInstantiation ==
    pc = "instantiated"
    => /\ Len(result.cells) = Cardinality(KeptCells)
       /\ \A k \in 1..Len(result.cells) :
             LET cellDesc == layoutDescriptor.cells[KeptCell(k)]
             IN  /\ result.cells[k].photo = photos[cellDesc.photoIndex + 1]
                 /\ result.cells[k].x = NMul(cellDesc.x, R(pageSize.width))
                 /\ result.cells[k].y = NMul(cellDesc.y, R(pageSize.height))
                 /\ result.cells[k].width = NMul(cellDesc.width, R(pageSize.width))
                 /\ result.cells[k].height = NMul(cellDesc.height, R(pageSize.height))

\* C21 happens: a descriptor of five cells was instantiated with three photos; two
\* cells were dropped
C21_TwoCellsDropped ==
    /\ pc = "instantiated"
    /\ Len(layoutDescriptor.cells) = 5 /\ Len(photos) = 3 /\ Len(result.cells) = 3
    /\ layoutDescriptor.type = "split"

PositiveCell(c) == NGt(c.width, R(0)) /\ NGt(c.height, R(0))

\* the two cells share a region of positive area: the rectangle common to both is
\* wider and higher than rounding can make it
Overlap(c, d) ==
    /\ NGt(NSub(NMin(NAdd(c.x, c.width), NAdd(d.x, d.width)), NMax(c.x, d.x)), RoundingTolerance)
    /\ NGt(NSub(NMin(NAdd(c.y, c.height), NAdd(d.y, d.height)), NMax(c.y, d.y)), RoundingTolerance)

WellFormed(layout) ==
    /\ \A i \in 1..Len(layout.cells) : PositiveCell(layout.cells[i])
    /\ \A i, j \in 1..Len(layout.cells) : i < j => ~Overlap(layout.cells[i], layout.cells[j])

\* C22: in every candidate generated for n photos (1 <= n <= 9) on a positive page,
\* every cell has positive width and height and no two cells of the same candidate
\* overlap in a region of positive area.
C22_CellsPositiveAndDisjoint ==
    pc \in {"built", "done"} /\ SomePhotos /\ Len(photos) <= 9 /\ PositivePage(pageSize)
    => /\ \A i \in 1..Len(layouts) : WellFormed(layouts[i])
       /\ \A i \in 1..Len(result) : WellFormed(result[i])

\* the rectangle of the dominant cell: 2/3 of the page width and the full height at
\* the left or right edge, the full width and 1/2 of the page height at the top or
\* bottom edge
DominantRect(side, page) ==
    CASE side = "left"   -> <<R(0), R(0), Frac(2 * page.width, 3), R(page.height)>>
      [] side = "right"  -> <<Frac(page.width, 3), R(0), Frac(2 * page.width, 3), R(page.height)>>
      [] side = "top"    -> <<R(0), R(0), R(page.width), Frac(page.height, 2)>>
      [] side = "bottom" -> <<R(0), Frac(page.height, 2), R(page.width), Frac(page.height, 2)>>

\* the rectangles of the other m cells: the residual region divided evenly
ResidualRects(side, page, m) ==
    CASE side = "left"   -> {<<Frac(2 * page.width, 3), Frac(k * page.height, m),
                               Frac(page.width, 3), Frac(page.height, m)>> : k \in 0..(m - 1)}
      [] side = "right"  -> {<<R(0), Frac(k * page.height, m),
                               Frac(page.width, 3), Frac(page.height, m)>> : k \in 0..(m - 1)}
      [] side = "top"    -> {<<Frac(k * page.width, m), Frac(page.height, 2),
                               Frac(page.width, m), Frac(page.height, 2)>> : k \in 0..(m - 1)}
      [] side = "bottom" -> {<<Frac(k * page.width, m), R(0),
                               Frac(page.width, m), Frac(page.height, 2)>> : k \in 0..(m - 1)}

\* the layout is the dominant layout of that side for the photos ps
IsDominantLayout(layout, side, ps, page) ==
    /\ Len(layout.cells) = Len(ps)
    /\ HasRects(layout, {DominantRect(side, page)} \cup ResidualRects(side, page, Len(ps) - 1))
    /\ \E i \in 1..Len(layout.cells) :
          /\ NearRect(Rect(layout.cells[i]), DominantRect(side, page))
          /\ \A j \in 1..Len(layout.cells) :
                NearRect(Rect(layout.cells[j]), DominantRect(side, page)) => j = i
          /\ layout.cells[i].photo = IF side \in {"left", "top"} THEN ps[1] ELSE ps[Len(ps)]

DominantNames == {"left-dominant", "top-dominant", "right-dominant", "bottom-dominant"}

\* C23: for every n >= 3 the generator builds (before deduplication) the four dominant
\* layouts left, top, right and bottom; each has n cells of which exactly one is
\* dominant (2/3 of the page width and full height for left/right, full width and 1/2
\* of the page height for top/bottom), bound to the first photo for left and top and
\* to the last photo for right and bottom, the other n-1 cells dividing the residual
\* region evenly; for n < 3 none is built.
C23_DominantLayoutsBuilt ==
    pc = "built" /\ SomePhotos /\ PositivePage(pageSize)
    => IF Len(photos) >= 3
       THEN \A side \in {"left", "top", "right", "bottom"} :
               \E i \in 1..Len(layouts) :
                  IsDominantLayout(layouts[i], side, sortedPhotos, pageSize)
       ELSE \A i \in 1..Len(layouts) : NameString(layouts[i]) \notin DominantNames

CellArea(c) == NMul(c.width, c.height)

\* the layout has a cell and every cell has positive area
ValidForScoring(layout) ==
    /\ Len(layout.cells) > 0
    /\ \A i \in 1..Len(layout.cells) : NGt(CellArea(layout.cells[i]), R(0))

\* C24: scoreLayouts never returns a scored entry for a layout that has zero cells or
\* that has a cell of non-positive area: such a layout is left out of the scored
\* result.
C24_NoInvalidLayoutScored ==
    pc = "done" => \A i \in 1..Len(result) : ValidForScoring(result[i])

\* every cell of the layout has the same positive area
EqualPositiveAreas(layout) ==
    /\ Len(layout.cells) > 0
    /\ \A i \in 1..Len(layout.cells) :
          /\ NGt(CellArea(layout.cells[i]), R(0))
          /\ NEq(CellArea(layout.cells[i]), CellArea(layout.cells[1]))

\* C25: calculateSizeBalance returns 1 (up to rounding) for every layout whose cells
\* all have the same positive area, a single-cell layout included.
C25_EqualAreasBalanceOne ==
    pc = "done" =>
        \A i \in 1..Len(result) :
            EqualPositiveAreas(result[i]) => Near(result[i].metrics.sizeBalance, R(1))

\* 1 - min(cellAspect, photoAspect) / max(cellAspect, photoAspect)
AspectMismatch(cell) ==
    The({ NSub(R(1), NDiv(NMin(cellAspect, photoAspect), NMax(cellAspect, photoAspect)))
          : cellAspect \in {NDiv(cell.width, cell.height)},
            photoAspect \in {AspectRatio(cell.photo)} })

MeanAspectMismatch(layout) ==
    NDiv(NSum(Tup([i \in 1..Len(layout.cells) |-> AspectMismatch(layout.cells[i])])),
         R(Len(layout.cells)))

\* the layout has a cell, and every cell has positive size and a photo
Measurable(layout) ==
    /\ ValidForScoring(layout)
    /\ \A i \in 1..Len(layout.cells) : layout.cells[i].photo # Null

\* C26 as stated: the geometric scaled-overflow calculateCroppingRate and the
\* aspect-ratio-difference calculateCroppingRate return the same value for every layout
\* whose cells have positive size and a photo of positive size.
C26_CroppingRatesAgree ==
    (pc = "compared" /\ Measurable(result.layout)) =>
        NEq(result.geometric, result.aspectDifference)

\* C26, corrected: the two cropping rates are equal up to rounding, both being within
\* rounding of the mean over the cells of
\* 1 - min(cellAspect, photoAspect) / max(cellAspect, photoAspect).
C26_CroppingRatesAgreeWithinRounding ==
    (pc = "compared" /\ Measurable(result.layout)) =>
        /\ Near(result.geometric, result.aspectDifference)
        /\ Near(result.geometric, MeanAspectMismatch(result.layout))
        /\ Near(result.aspectDifference, MeanAspectMismatch(result.layout))

\* a layout of several cells, some cropped in height and some in width, was measured
C26_BothOverflowsMeasured ==
    /\ pc = "compared"
    /\ Measurable(result.layout)
    /\ \E i, j \in 1..Len(result.layout.cells) :
          /\ NGt(NDiv(result.layout.cells[i].width, result.layout.cells[i].height),
                 AspectRatio(result.layout.cells[i].photo))
          /\ NLt(NDiv(result.layout.cells[j].width, result.layout.cells[j].height),
                 AspectRatio(result.layout.cells[j].photo))

\* the layout was built by an optimized assignment: its cells carry the aspectRatio
\* the assignment is matched on
IsOptimizedVariant(layout) ==
    Len(layout.cells) > 0 /\ "aspectRatio" \in DOMAIN layout.cells[1]

\* everything of a stack layout but its cells
TemplateOf(layout) == [k \in (DOMAIN layout) \ {"cells"} |-> layout[k]]

\* variant is the optimized-assignment variant of the template base was built from
SameTemplate(base, variant) ==
    IF "name" \in DOMAIN variant
    THEN "name" \in DOMAIN base /\ variant.name = base.name \o "-optimized"
    ELSE TemplateOf(base) = TemplateOf(variant)

\* C27: in the strict pipeline every optimized-assignment variant has the strict
\* signature of the sequential layout of the same template, which comes earlier in the
\* generated list; so strict deduplication drops every optimized variant, and every
\* candidate generateLayouts returns carries the sequential photo assignment.
C27_OptimizedVariantsDropped ==
    (generator = "strict" /\ pc \in {"built", "deduplicated", "done"}) =>
        /\ \A i \in 1..Len(layouts) :
              IsOptimizedVariant(layouts[i]) =>
                 \E j \in 1..(i - 1) :
                    /\ ~IsOptimizedVariant(layouts[j])
                    /\ SameTemplate(layouts[j], layouts[i])
                    /\ getLayoutSignatureS(layouts[j], pageSize) = getLayoutSignatureS(layouts[i], pageSize)
        /\ pc \in {"deduplicated", "done"} =>
              \A u \in 1..Len(uniqueLayouts) : ~IsOptimizedVariant(uniqueLayouts[u])
        /\ pc = "done" =>
              \A r \in 1..Len(result) :
                 /\ ~IsOptimizedVariant(result[r])
                 /\ \E j \in 1..Len(layouts) :
                       ~IsOptimizedVariant(layouts[j]) /\ result[r].cells = layouts[j].cells

\* generateLayouts returned, having built an optimized variant that puts some photo in
\* another rectangle than the sequential layout of its template does
C27_ReassignedVariantDropped ==
    /\ generator = "strict"
    /\ pc = "done"
    /\ \E i \in 1..Len(layouts), j \in 1..Len(layouts) :
          /\ IsOptimizedVariant(layouts[i])
          /\ ~IsOptimizedVariant(layouts[j])
          /\ SameTemplate(layouts[j], layouts[i])
          /\ getLayoutSignatureS(layouts[j], pageSize) = getLayoutSignatureS(layouts[i], pageSize)
          /\ \E a \in 1..Len(layouts[i].cells), b \in 1..Len(layouts[j].cells) :
                /\ layouts[i].cells[a].x = layouts[j].cells[b].x
                /\ layouts[i].cells[a].y = layouts[j].cells[b].y
                /\ layouts[i].cells[a].photo # layouts[j].cells[b].photo

\* the number of layouts generateComplexLayouts is to return for n photos
ComplexCount(n) == IF n = 7 THEN 20 ELSE IF n \in {8, 9} THEN 16 ELSE 0

\* C28: generateComplexLayouts terminates for 7, 8 and 9 photos although its forEach
\* loop appends to the array it iterates: the loop visits only the base templates that
\* are in the array when it starts, so the result is the base templates followed by
\* exactly one '-optimized' variant of each, in the same order (20, 16 and 16
\* layouts), and it is empty for every other number of photos.
C28_ComplexLayoutsTerminate ==
    /\ pc = "forEach" =>
          /\ forEachIndex <= forEachLength
          /\ Len(layouts) = forEachLength + forEachIndex
          /\ 2 * forEachLength = ComplexCount(Len(sortedPhotos))
    /\ pc = "returned" =>
          /\ Len(result) = ComplexCount(Len(sortedPhotos))
          /\ result = generateComplexLayouts(sortedPhotos, pageSize)
          /\ \A k \in 1..(Len(result) \div 2) :
                LET base == result[k]
                    variant == result[Len(result) \div 2 + k]
                IN  /\ ~IsOptimizedVariant(base)
                    /\ base = FromTemplate(sortedPhotos, pageSize, ComplexTemplates(Len(sortedPhotos))[k])
                    /\ IsOptimizedVariant(variant)
                    /\ variant.name = base.name \o "-optimized"
                    /\ Rects(variant) = Rects(base)

\* generateComplexLayouts returned for nine photos, the last variant being that of
\* the last base template
C28_NinePhotosReturned ==
    /\ pc = "returned"
    /\ Len(sortedPhotos) = 9
    /\ Len(result) = 16
    /\ forEachIndex = 8
    /\ result[16].name = result[8].name \o "-optimized"

\* the photo is in the list
Holds(list, photo) == \E i \in 1..Len(list) : list[i] = photo

\* a step in which the images of a selection finish loading keeps every photo the
\* component held and adds the photos of the selection, in the component's list and
\* in the list passed to onPhotosUploaded
KeepsEveryUpload ==
    \A call \in loading :
        loading' = loading \ {call} =>
            /\ \A i \in 1..Len(uploaderPhotos) :
                  Holds(uploaderPhotos', uploaderPhotos[i]) /\ Holds(photos', uploaderPhotos[i])
            /\ \A i \in 1..Len(call.files) :
                  /\ Holds(uploaderPhotos', LoadedPhoto(call.files[i]))
                  /\ Holds(photos', LoadedPhoto(call.files[i]))

\* C29: PhotoUploader loses no upload: when a second file selection starts before the
\* images of a first selection have loaded, then after both have completed the photo
\* list the component holds and passes to onPhotosUploaded contains the photos held
\* before and the photos of both selections.
C29_NoUploadLost == [][KeepsEveryUpload]_vars

\* C30: App consistency: whenever no image load is pending, the displayed layouts
\* are generateLayouts of the current photos (sorted by descending aspect ratio) and
\* the current page size, and are empty when there are no photos, whatever uploads,
\* removals and page-size changes came before, a page-size change during a load
\* included.
C30_LayoutsMatchState ==
    (pc = "rendered" /\ loading = {}) =>
        layouts = (IF Len(photos) = 0 THEN <<>> ELSE GeneratedLayouts(photos, pageSize))
====
